---- MODULE Spec2Model ----
(***************************************************************************)
(* A model of the PostgreSQL session backend                               *)
(* (src/src/backends/postgresql/session.cpp): one                          *)
(* postgresql_session_backend object, the libpq connection handles and the *)
(* trace files it acquires, and the engine on the other side of libpq.     *)
(*                                                                         *)
(* Every member function is one action.  The engine boundary (fopen,       *)
(* PQconnectdb, PQexec, setsockopt, PQfinish, fclose ...) is opaque: each  *)
(* call's outcome is a nondeterministic choice, and every call an          *)
(* operation makes is written, in order, to the log `calls`.               *)
(***************************************************************************)
EXTENDS Integers, Sequences, FiniteSets, TLC

\* ------------------------------------------------------------------ bounds
\* connect() attempts in one behaviour, the constructor's included.
MaxConnects == 2
\* get_next_statement_name() calls in one behaviour.
MaxStatements == 2

\* ------------------------------------------------------- program constants
\* A null PGconn* / FILE*.
Null == 0
\* PQlibVersion()/PQserverVersion() of 12.0, the threshold of both tests.
Version12 == 120000
\* PQserverVersion() of 9.0, from which extra_float_digits = 3 is accepted.
Version9 == 90000
\* The largest int, the type of timeoutMs.
INT_MAX == 2147483647
\* Milliseconds per second in the Windows TCP_MAXRT conversion.
MS_PER_SEC == 1000

\* sizeof(short), the width of a varying text's length prefix.
SizeofShort == 2
\* sizeof(int), the width of a field of std::tm.
SizeofInt == 4
\* sizeof(ISC_TIMESTAMP), sizeof(ISC_DATE), sizeof(ISC_TIME): what
\* isc_encode_timestamp, isc_encode_sql_date and isc_encode_sql_time write.
SizeofIscTimestamp == 8
SizeofIscDate == 4
SizeofIscTime == 4
\* The builds' sizeof(std::tm) and byte order: nine ints, tm_gmtoff and
\* tm_zone, with 4-byte long and pointers on a big-endian machine and with
\* 8-byte ones on a little-endian machine.
Abis ==
    {[sizeofTm |-> 44, littleEndian |-> FALSE],
     [sizeofTm |-> 56, littleEndian |-> TRUE]}
HostAbi == [sizeofTm |-> 56, littleEndian |-> TRUE]
\* The descriptor before any buffer exists.
NoVar == [sqltype |-> 0, sqllen |-> 0, sqlscale |-> 0]

VARIABLES
    \* -- the session object's fields
    conn_,                  \* PGconn*: Null or a handle id
    traceFile_,             \* FILE*: Null or a file id
    single_row_mode_,
    statementCount_,
    connectionParameters_,  \* the parameters of the last successful connect
    deallocatePreparedStatements_,
    \* -- the object's lifetime
    life,                   \* "unconstructed" | "alive" | "destroyed" | "ctor_threw"
    \* -- the build: platform and libpq version
    build,
    \* -- the resources handed out by the engine boundary
    nHandles,               \* handles PQconnectdb has returned: ids 1..nHandles
    finished,               \* handle id -> number of PQfinish calls on it
    nFiles,                 \* files fopen has returned: ids 1..nFiles
    closed,                 \* file id -> number of fclose calls on it
    \* -- libpq's and the engine's state of the handle stored in conn_
    status,                 \* what PQstatus(conn_) returns
    linkUp,                 \* whether the socket of conn_ still reaches the engine
    inTx,                   \* the engine has an open transaction on conn_
    \* -- what the last operation did
    lastOp,                 \* its name
    lastArg,                \* its argument, "" if it takes none
    lastErr,                \* the message of the error it threw, "" if none
    lastRet,                \* what it returned, "" if nothing
    calls,                  \* the engine boundary calls it made, in order
    \* -- history
    nConnects,              \* connect() attempts so far
    phase,                  \* "fresh" | "connected" | "cleaned"
    cleanNoConnect,         \* clean_up() has run and no connect() was attempted since
    returnedNames,          \* every name get_next_statement_name() has returned
    \* -- get_schema_names(): its vector when the tokenizer loop has ended,
    \* -- and the vector it returned, in its last run
    schema_names,
    schema_list,
    \* -- the Firebird value buffers
    abi,                    \* the build's sizeof(std::tm) and byte order
    var,                    \* the XSQLVAR descriptor of the buffer
    buf,                    \* the bytes of the buffer, var->sqldata
    written                 \* the offsets the last operation wrote

sessionVars == <<conn_, traceFile_, single_row_mode_, statementCount_,
                 connectionParameters_, deallocatePreparedStatements_>>
resourceVars == <<nHandles, finished, nFiles, closed>>
engineVars == <<status, linkUp, inTx>>
lastVars == <<lastOp, lastArg, lastErr, lastRet, calls>>
historyVars == <<nConnects, phase, cleanNoConnect, returnedNames>>
schemaVars == <<schema_names, schema_list>>
marshalVars == <<abi, var, buf, written>>
otherVars == <<schemaVars, marshalVars>>
vars == <<sessionVars, life, build, resourceVars, engineVars, lastVars,
          historyVars, otherVars>>

\* ------------------------------------------------------ connection options
option_reconnect == "reconnect"
PrivateKeys == {option_reconnect, "singlerow", "singlerows", "tracefile",
                "tcp_user_timeout"}

\* Whether the option is present (extract_option's return value).
HasOption(params, name) == name \in DOMAIN params

\* connection_parameters::extract_option: the options without `name`.
ExtractOption(params, name) ==
    [k \in (DOMAIN params) \ {name} |-> params[k]]

\* The value extract_option stores into its out-parameter: untouched (here the
\* previous value) when the option is absent.
ExtractedValue(params, name, value) ==
    IF HasOption(params, name) THEN params[name] ELSE value

\* connection_parameters::is_true_value, for the spellings it accepts.
IsTrueValue(value) == value \in {<<"1">>, <<"o", "n">>}

\* connection_parameters::build_string_from_options: every remaining option
\* as key=<quote>value<quote>.
BuildStringFromOptions(params, quote) ==
    {<<k, <<quote>> \o params[k] \o <<quote>>>> : k \in DOMAIN params}

\* The keys of an option string built by BuildStringFromOptions.
KeysOf(str) == {kv[1] : kv \in str}

\* ------------------------------------------------------ engine boundary log
\* One call across the engine boundary: the function, the handle or file it
\* acts on (for PQconnectdb and fopen: the one it returned), its argument
\* and what it answered ("" when the caller reads no answer; for PQconnectdb
\* the version of the server the handle is connected to, which
\* PQserverVersion() reports of it, 0 when it is connected to none).
Call(fn, h, arg, res) == [fn |-> fn, h |-> h, arg |-> arg, res |-> res]

\* The calls of function fn in a log.
CallsOf(log, fn) == SelectSeq(log, LAMBDA c : c.fn = fn)

\* How often PQfinish / fclose was called on h in a log.
CountOn(log, fn, h) == Len(SelectSeq(log, LAMBDA c : c.fn = fn /\ c.h = h))

\* ------------------------------------------------------ tcp_user_timeout
IsDigit(c) == c \in {"0", "1", "2", "3", "4", "5", "6", "7", "8", "9"}

DigitValue(c) ==
    CASE c = "0" -> 0 [] c = "1" -> 1 [] c = "2" -> 2 [] c = "3" -> 3
      [] c = "4" -> 4 [] c = "5" -> 5 [] c = "6" -> 6 [] c = "7" -> 7
      [] c = "8" -> 8 [] c = "9" -> 9

RECURSIVE DigitsValue(_)
DigitsValue(ds) ==
    IF ds = <<>> THEN 0
    ELSE 10 * DigitsValue(SubSeq(ds, 1, Len(ds) - 1)) + DigitValue(ds[Len(ds)])

\* cstring_to_integer(int&, char const*): an optional sign and at least one
\* digit, nothing else, the value within int.
CStringToInteger(str) ==
    LET signed == str # <<>> /\ Head(str) \in {"-", "+"}
        digits == IF signed THEN Tail(str) ELSE str
        wellFormed == digits # <<>> /\ \A i \in 1..Len(digits) : IsDigit(digits[i])
        magnitude == IF wellFormed THEN DigitsValue(digits) ELSE 0
        value == IF signed /\ Head(str) = "-" THEN 0 - magnitude ELSE magnitude
    IN  [ok |-> wellFormed /\ value >= 0 - INT_MAX - 1 /\ value <= INT_MAX,
         value |-> value]

\* set_tcp_user_timeout() that takes a negative value for an invalid one.
set_tcp_user_timeout_rejects_negative(sock, timeoutStr, b, e) ==
    LET parsed == CStringToInteger(timeoutStr)
        timeoutMs == parsed.value
        rounded == (timeoutMs + MS_PER_SEC \div 2) \div MS_PER_SEC
        timeoutSec == IF rounded = 0 THEN 1 ELSE rounded
        failed == e.sock = "setsockopt_fails"
    IN  IF ~parsed.ok \/ timeoutMs < 0
          THEN [err |-> "Invalid value for tcp_user_timeout connection option",
                calls |-> <<>>]
        ELSE IF timeoutMs = 0 THEN [err |-> "", calls |-> <<>>]
        ELSE IF b.win32
          THEN [err |-> IF failed THEN "Failed to set TCP_MAXRT option on the socket"
                                  ELSE "",
                calls |-> <<Call("setsockopt", sock, <<"TCP_MAXRT", timeoutSec>>,
                                 IF failed THEN e.sock ELSE "ok")>>]
        ELSE IF b.tcpUserTimeout /\ e.sock \in {"getsockname_fails", "unix"}
          THEN [err |-> IF e.sock = "unix" THEN "" ELSE "Failed to get socket address",
                calls |-> <<Call("getsockname", sock, "", e.sock)>>]
        ELSE IF b.tcpUserTimeout
          THEN [err |-> IF failed
                          THEN "Failed to set TCP_USER_TIMEOUT option on the socket"
                          ELSE "",
                calls |-> <<Call("getsockname", sock, "", "ok"),
                            Call("setsockopt", sock,
                                 <<"TCP_USER_TIMEOUT", timeoutMs>>, e.sock)>>]
        ELSE [err |-> "", calls |-> <<>>]

\* set_tcp_user_timeout(sock, timeoutStr) in build b, where e.sock says what
\* the socket calls do: "ok", "getsockname_fails", "unix" (an AF_UNIX socket)
\* or "setsockopt_fails".  The error thrown ("" if none) and the calls made.
set_tcp_user_timeout(sock, timeoutStr, b, e) ==
    LET parsed == CStringToInteger(timeoutStr)
        timeoutMs == parsed.value
        rounded == (timeoutMs + MS_PER_SEC \div 2) \div MS_PER_SEC
        timeoutSec == IF rounded = 0 THEN 1 ELSE rounded
    IN  IF ~parsed.ok
          THEN [err |-> "Invalid value for tcp_user_timeout connection option",
                calls |-> <<>>]
        ELSE IF timeoutMs = 0 THEN [err |-> "", calls |-> <<>>]
        ELSE IF timeoutMs < 0 THEN [err |-> "", calls |-> <<>>]
        ELSE IF b.win32
          THEN [err |-> IF e.sock = "setsockopt_fails"
                          THEN "Failed to set TCP_MAXRT option on the socket"
                          ELSE "",
                calls |-> <<Call("setsockopt", sock, <<"TCP_MAXRT", timeoutSec>>,
                                 IF e.sock = "setsockopt_fails" THEN e.sock
                                                                ELSE "ok")>>]
        ELSE IF b.tcpUserTimeout
          THEN IF e.sock = "getsockname_fails"
                 THEN [err |-> "Failed to get socket address",
                       calls |-> <<Call("getsockname", sock, "", e.sock)>>]
               ELSE IF e.sock = "unix"
                 THEN [err |-> "",
                       calls |-> <<Call("getsockname", sock, "", e.sock)>>]
               ELSE [err |-> IF e.sock = "setsockopt_fails"
                               THEN "Failed to set TCP_USER_TIMEOUT option on the socket"
                               ELSE "",
                     calls |-> <<Call("getsockname", sock, "", "ok"),
                                 Call("setsockopt", sock,
                                      <<"TCP_USER_TIMEOUT", timeoutMs>>, e.sock)>>]
        ELSE [err |-> "", calls |-> <<>>]

\* ------------------------------------------------------------- hard_exec
\* postgresql_result::check_for_errors: throws errMsg when the engine
\* rejected the command, nothing otherwise.
check_for_errors(accepted, errMsg) == IF accepted THEN "" ELSE errMsg

\* hard_exec(session, conn, query, errMsg): one PQexec on conn, then
\* check_for_errors on its result.
hard_exec(conn, query, errMsg, accepted) ==
    [err |-> check_for_errors(accepted, errMsg),
     calls |-> <<Call("PQexec", conn, query,
                      IF accepted THEN "PGRES_COMMAND_OK" ELSE "PGRES_FATAL_ERROR")>>]

\* ---------------------------------------------------------------- connect
\* connection_parameters::extract_options_from_space_separated_string: the
\* connection string's key=value tokens as a mapping.  The model's
\* parameters are given as the set of tokens <<key, value>>.
ExtractOptionsFromSpaceSeparatedString(parameters) ==
    [k \in {t[1] : t \in parameters} |->
        (CHOOSE t \in parameters : t[1] = k)[2]]

\* Whether connect() takes tcp_user_timeout out of the options itself: always
\* on Windows and without PQlibVersion(), else only with a libpq before 12.
ExtractsTimeout(b) == b.win32 \/ b.noLibVersion \/ b.libVersion < Version12

\* The SOCI-specific options connect() extracts, in its order: reconnect,
\* singlerow or else singlerows, tracefile, tcp_user_timeout.  `params` is
\* what is left of the options, `name` the single-row option found.
ExtractPrivateOptions(params0, b) ==
    LET params1 == ExtractOption(params0, option_reconnect)
        name == IF HasOption(params1, "singlerow") THEN "singlerow"
                ELSE IF HasOption(params1, "singlerows") THEN "singlerows"
                ELSE "nullptr"
        params2 == IF name = "nullptr" THEN params1 ELSE ExtractOption(params1, name)
        params3 == ExtractOption(params2, "tracefile")
        params4 == IF ExtractsTimeout(b)
                     THEN ExtractOption(params3, "tcp_user_timeout")
                     ELSE params3
    IN  [params |-> params4,
         name |-> name,
         singleRow |-> IF name = "nullptr" THEN <<>> ELSE params1[name],
         hasTrace |-> HasOption(params2, "tracefile"),
         traceValue |-> ExtractedValue(params2, "tracefile", <<>>),
         timeoutStr |-> IF ExtractsTimeout(b)
                          THEN ExtractedValue(params3, "tcp_user_timeout", <<>>)
                          ELSE <<>>]

\* The fopen mode and path of a tracefile value: a leading + means append.
TraceMode(value) == IF Head(value) = "+" THEN "a" ELSE "w"
TracePath(value) == IF Head(value) = "+" THEN Tail(value) ELSE value

\* The extra_float_digits command for a server version.
FloatDigitsQuery(version) ==
    IF version >= Version9 THEN "SET extra_float_digits = 3"
                           ELSE "SET extra_float_digits = 2"

\* The version test with 12.0 itself taken for an older version.
NeedsFloatDigits_through_12(version) == version <= Version12

\* Whether connect() issues the extra_float_digits command.
NeedsFloatDigits(version) == version < Version12

\* connPtr without its deleter: a raw pointer, never released.
ConnPtrDeleterLeaks(conn) == <<>>

\* connPtr's destructor when connect() is left by an exception: PQfinish on
\* the handle unless it is null.
ConnPtrDeleter(conn) ==
    IF conn # Null THEN <<Call("PQfinish", conn, "", "")>> ELSE <<>>

\* connect() storing the handle as soon as it has one, before the steps that
\* may still throw.
ConnectEndStoresEarly(err, made, conn, tf, srm, parameters) ==
    [err |-> err,
     calls |-> IF err # "" THEN made \o ConnPtrDeleter(conn) ELSE made,
     conn |-> IF conn # Null THEN conn ELSE conn_,
     params |-> IF err # "" THEN connectionParameters_ ELSE parameters,
     traceFile |-> tf,
     singleRow |-> srm]

\* How connect() ends: by an exception (err # "") after the calls made, the
\* local handle `conn` released by connPtr, or normally, the handle stored.
ConnectEnd(err, made, conn, tf, srm, parameters) ==
    [err |-> err,
     calls |-> IF err # "" THEN made \o ConnPtrDeleter(conn) ELSE made,
     conn |-> IF err # "" THEN conn_ ELSE conn,
     params |-> IF err # "" THEN connectionParameters_ ELSE parameters,
     traceFile |-> tf,
     singleRow |-> srm]

\* connect(parameters), where e gives the outcome of each engine boundary
\* call it may make: e.fopenOk, e.native ("null": no handle, "bad": a handle
\* whose status is not OK, "ok"), e.sock, e.version and e.execOk.
connect(parameters, e) ==
    LET x == ExtractPrivateOptions(
                 ExtractOptionsFromSpaceSeparatedString(parameters), build)
        srm == IF x.name # "nullptr" THEN IsTrueValue(x.singleRow)
                                     ELSE single_row_mode_
        opens == x.hasTrace /\ x.traceValue # <<>>
        file == IF e.fopenOk THEN nFiles + 1 ELSE Null
        tf == IF opens THEN file ELSE traceFile_
        c1 == IF opens
                THEN <<Call("fopen", file,
                            <<TracePath(x.traceValue), TraceMode(x.traceValue)>>,
                            "")>>
                ELSE <<>>
        conn == IF e.native = "null" THEN Null ELSE nHandles + 1
        c2 == c1 \o <<Call("PQconnectdb", conn,
                           BuildStringFromOptions(x.params, "'"),
                           IF e.native = "ok" THEN e.version ELSE 0)>>
                 \o (IF conn # Null
                       THEN <<Call("PQstatus", conn, "",
                                   IF e.native = "ok" THEN "CONNECTION_OK"
                                                      ELSE "CONNECTION_BAD")>>
                       ELSE <<>>)
        c3 == IF tf # Null THEN c2 \o <<Call("PQtrace", conn, tf, "")>> ELSE c2
        t == IF x.timeoutStr # <<>>
               THEN set_tcp_user_timeout(conn, x.timeoutStr, build, e)
               ELSE [err |-> "", calls |-> <<>>]
        c4 == c3 \o t.calls
        version == e.version
        f == IF NeedsFloatDigits(version)
               THEN hard_exec(conn, FloatDigitsQuery(version),
                              "Cannot set extra_float_digits parameter", e.execOk)
               ELSE [err |-> "", calls |-> <<>>]
        c5 == c4 \o <<Call("PQserverVersion", conn, "", version)>> \o f.calls
    IN  IF opens /\ tf = Null
          THEN ConnectEnd("Cannot open database trace file", c1, Null, tf, srm,
                          parameters)
        ELSE IF e.native = "null"
          THEN ConnectEnd("Cannot establish connection to the database.", c2,
                          conn, tf, srm, parameters)
        ELSE IF e.native = "bad"
          THEN ConnectEnd("Cannot establish connection to the database.\nPQerrorMessage",
                          c2, conn, tf, srm, parameters)
        ELSE IF t.err # ""
          THEN ConnectEnd(t.err, c4, conn, tf, srm, parameters)
        ELSE IF f.err # ""
          THEN ConnectEnd(f.err, c5, conn, tf, srm, parameters)
        ELSE ConnectEnd("", c5, conn, tf, srm, parameters)

\* ------------------------------------------------- resource accounting
\* The handles (files) a log's PQconnectdb (fopen) calls returned.
Obtained(log, fn) == Len(SelectSeq(log, LAMBDA c : c.fn = fn /\ c.h # Null))

\* The resource counters after the calls of a log: each handle PQconnectdb
\* returned and each file fopen returned is new, each PQfinish and fclose is
\* counted on its handle or file.
Account(log) ==
    /\ nHandles' = nHandles + Obtained(log, "PQconnectdb")
    /\ finished' = [h \in 1..(nHandles + Obtained(log, "PQconnectdb")) |->
                      (IF h <= nHandles THEN finished[h] ELSE 0)
                      + CountOn(log, "PQfinish", h)]
    /\ nFiles' = nFiles + Obtained(log, "fopen")
    /\ closed' = [f \in 1..(nFiles + Obtained(log, "fopen")) |->
                      (IF f <= nFiles THEN closed[f] ELSE 0)
                      + CountOn(log, "fclose", f)]

\* ----------------------------------------------------------------- inputs
\* The values each option takes in the model (a value is its characters).
OptionValues(k) ==
    CASE k = option_reconnect -> {<<"1">>}
      [] k = "singlerow" -> {<<"1">>, <<"0">>}
      [] k = "singlerows" -> {<<"1">>}
      [] k = "tracefile" -> {<<>>, <<"t">>, <<"+", "t">>}
      [] k = "tcp_user_timeout" -> {<<>>, <<"0">>, <<"-", "1">>,
                                    <<"1", "5", "0", "0">>, <<"x">>}
      [] k = "dbname" -> {<<"d">>}

Keys == PrivateKeys \cup {"dbname"}

Tokens == UNION {{<<k, v>> : v \in OptionValues(k)} : k \in Keys}

\* Connection parameters: at most one token per key.
AllParameters ==
    {p \in SUBSET Tokens : \A t1, t2 \in p : t1[1] = t2[1] => t1 = t2}

\* The parameters the life-cycle specification connects with: a trace file
\* or none, a timeout or none.
LifeParameters ==
    SUBSET {<<"tracefile", <<"+", "t">>>>,
            <<"tcp_user_timeout", <<"1", "5", "0", "0">>>>}

\* The builds: Windows, a platform with TCP_USER_TIMEOUT and a libpq before
\* or from 12, one without PQlibVersion(), and a platform with neither.
Builds ==
    {[win32 |-> TRUE, noLibVersion |-> FALSE, tcpUserTimeout |-> FALSE, libVersion |-> 120000],
     [win32 |-> FALSE, noLibVersion |-> FALSE, tcpUserTimeout |-> TRUE, libVersion |-> 110000],
     [win32 |-> FALSE, noLibVersion |-> FALSE, tcpUserTimeout |-> TRUE, libVersion |-> 120000],
     [win32 |-> FALSE, noLibVersion |-> TRUE, tcpUserTimeout |-> TRUE, libVersion |-> 90000],
     [win32 |-> FALSE, noLibVersion |-> FALSE, tcpUserTimeout |-> FALSE, libVersion |-> 110000]}

\* The builds of the life-cycle specification: one where connect() sets the
\* timeout itself and one where it leaves the option to libpq.
LifeBuilds == {b \in Builds : b.libVersion = 120000}

\* The build of the specifications that do not depend on it.
HostBuild ==
    [win32 |-> FALSE, noLibVersion |-> FALSE, tcpUserTimeout |-> TRUE,
     libVersion |-> 120000]

\* What the engine boundary may do during one connect().  A field that the
\* outcome leaves unread has one value, so no outcome is listed twice.
ConnectOutcomes ==
    {e \in [fopenOk : BOOLEAN, native : {"null", "bad", "ok"},
            sock : {"ok", "getsockname_fails", "unix", "setsockopt_fails"},
            version : {80400, 90600, 120000}, execOk : BOOLEAN] :
        /\ ~e.fopenOk => e.native = "ok"
        /\ (~e.fopenOk \/ e.native # "ok") => e.sock = "ok"
        /\ (~e.fopenOk \/ e.native # "ok") => e.version = 120000
        /\ ~NeedsFloatDigits(e.version) => e.execOk}

\* -------------------------------------------------------------- the state
CONNECTION_OK == "CONNECTION_OK"
CONNECTION_BAD == "CONNECTION_BAD"

\* PQstatus(conn): CONNECTION_BAD for a null handle.
PQstatus(conn) == IF conn = Null THEN CONNECTION_BAD ELSE status

EmptyParameters == {}

\* No descriptor and no buffer yet, on one of the builds A.
InitMarshal(A) ==
    /\ abi \in A
    /\ var = NoVar
    /\ buf = <<>>
    /\ written = {}

\* The session object when the constructor's initialisers have run and its
\* body, the call of connect(), has not, in one of the builds B.
InitSession(B) ==
    /\ conn_ = Null
    /\ traceFile_ = Null
    /\ single_row_mode_ = FALSE
    /\ statementCount_ = 0
    /\ connectionParameters_ = EmptyParameters
    /\ deallocatePreparedStatements_ \in BOOLEAN
    /\ life = "unconstructed"
    /\ build \in B
    /\ nHandles = 0
    /\ finished = <<>>
    /\ nFiles = 0
    /\ closed = <<>>
    /\ status = CONNECTION_BAD
    /\ linkUp = FALSE
    /\ inTx = FALSE
    /\ lastOp = "none"
    /\ lastArg = ""
    /\ lastErr = ""
    /\ lastRet = ""
    /\ calls = <<>>
    /\ nConnects = 0
    /\ phase = "fresh"
    /\ cleanNoConnect = FALSE
    /\ returnedNames = <<>>
    /\ schema_names = <<>>
    /\ schema_list = <<>>

\* The state before the constructor's body: the session of one of the
\* builds B, and no value buffer.
InitIn(B) == InitSession(B) /\ InitMarshal({HostAbi})

\* The effect of a connect() that ran as r.
ConnectEffect(r) ==
    /\ conn_' = r.conn
    /\ traceFile_' = r.traceFile
    /\ single_row_mode_' = r.singleRow
    /\ connectionParameters_' = r.params
    /\ UNCHANGED <<statementCount_, deallocatePreparedStatements_, build>>
    /\ Account(r.calls)
    /\ IF r.err = ""
         THEN status' = CONNECTION_OK /\ linkUp' = TRUE /\ inTx' = FALSE
         ELSE UNCHANGED engineVars
    /\ lastErr' = r.err
    /\ lastRet' = ""
    /\ calls' = r.calls
    /\ nConnects' = nConnects + 1
    /\ phase' = IF r.err = "" THEN "connected" ELSE phase
    /\ cleanNoConnect' = FALSE
    /\ UNCHANGED <<returnedNames, otherVars>>

\* postgresql_session_backend(parameters): the constructor's body.  When
\* connect() throws the object never comes to exist and no destructor runs.
Construct(P) ==
    /\ life = "unconstructed"
    /\ \E parameters \in P, e \in ConnectOutcomes :
         LET r == connect(parameters, e)
         IN  /\ ConnectEffect(r)
             /\ lastArg' = parameters
             /\ life' = IF r.err = "" THEN "alive" ELSE "ctor_threw"
    /\ lastOp' = "constructor"

\* connect(parameters) called on the constructed object.
Connect(P) ==
    /\ life = "alive"
    /\ nConnects < MaxConnects
    /\ \E parameters \in P, e \in ConnectOutcomes :
         /\ ConnectEffect(connect(parameters, e))
         /\ lastArg' = parameters
    /\ lastOp' = "connect"
    /\ UNCHANGED life

\* --------------------------------------------------------------- clean_up
\* clean_up() that releases and does not reset the fields.
clean_up_keeps_fields ==
    [calls |-> (IF conn_ # Null THEN <<Call("PQfinish", conn_, "", "")>> ELSE <<>>)
               \o (IF traceFile_ # Null THEN <<Call("fclose", traceFile_, "", "")>>
                                        ELSE <<>>),
     conn |-> conn_,
     traceFile |-> traceFile_]

\* clean_up(): PQfinish on the handle unless it is null, fclose on the trace
\* file unless it is null; both fields are null afterwards.
clean_up ==
    [calls |-> (IF conn_ # Null THEN <<Call("PQfinish", conn_, "", "")>> ELSE <<>>)
               \o (IF traceFile_ # Null THEN <<Call("fclose", traceFile_, "", "")>>
                                        ELSE <<>>),
     conn |-> Null,
     traceFile |-> Null]

CleanUpEffect(r) ==
    /\ conn_' = r.conn
    /\ traceFile_' = r.traceFile
    /\ UNCHANGED <<single_row_mode_, statementCount_, connectionParameters_,
                   deallocatePreparedStatements_, build>>
    /\ Account(r.calls)
    /\ IF r.conn = Null
         THEN status' = CONNECTION_BAD /\ linkUp' = FALSE /\ inTx' = FALSE
         ELSE UNCHANGED engineVars
    /\ lastErr' = ""
    /\ lastRet' = ""
    /\ calls' = r.calls
    /\ phase' = IF phase = "connected" THEN "cleaned" ELSE phase
    /\ cleanNoConnect' = TRUE
    /\ UNCHANGED <<nConnects, returnedNames, otherVars>>

CleanUp ==
    /\ life = "alive"
    /\ CleanUpEffect(clean_up)
    /\ lastOp' = "clean_up"
    /\ lastArg' = ""
    /\ UNCHANGED life

\* ~postgresql_session_backend(): clean_up().
Destroy ==
    /\ life = "alive"
    /\ CleanUpEffect(clean_up)
    /\ lastOp' = "destructor"
    /\ lastArg' = ""
    /\ life' = "destroyed"

\* ----------------------------------------------------------- the engine
\* What PQexec(conn_, ...) leaves as the handle's status: a command on a
\* socket that no longer reaches the engine turns the status bad.
StatusAfterExec ==
    IF conn_ = Null \/ ~linkUp THEN CONNECTION_BAD ELSE status

\* Whether the engine may accept a command sent on conn_: never on a null
\* or broken handle, else as the engine decides.
MayAccept == {FALSE} \cup {a \in {TRUE} : PQstatus(conn_) = CONNECTION_OK /\ linkUp}

\* The connection is lost out of band: the socket of conn_ stops reaching
\* the engine, and libpq has not noticed yet.
DropLink ==
    /\ life = "alive"
    /\ conn_ # Null
    /\ linkUp
    /\ linkUp' = FALSE
    /\ inTx' = FALSE
    /\ lastOp' = "drop"
    /\ lastArg' = ""
    /\ lastErr' = ""
    /\ lastRet' = ""
    /\ calls' = <<>>
    /\ UNCHANGED <<sessionVars, life, build, resourceVars, status, historyVars,
                   otherVars>>

\* ----------------------------------------------------------- is_connected
\* is_connected() that trusts the cached status and sends nothing.
is_connected_trusts_cache ==
    [ret |-> PQstatus(conn_) = CONNECTION_OK,
     calls |-> <<Call("PQstatus", conn_, "", PQstatus(conn_))>>,
     status |-> status]

\* is_connected(): false when PQstatus is not OK; else one ping and the
\* status read again.
is_connected ==
    IF PQstatus(conn_) # CONNECTION_OK
      THEN [ret |-> FALSE,
            calls |-> <<Call("PQstatus", conn_, "", PQstatus(conn_))>>,
            status |-> status]
      ELSE [ret |-> StatusAfterExec = CONNECTION_OK,
            calls |-> <<Call("PQstatus", conn_, "", PQstatus(conn_)),
                        Call("PQexec", conn_, "/* ping */", ""),
                        Call("PQstatus", conn_, "", StatusAfterExec)>>,
            status |-> StatusAfterExec]

\* is_connected() that, finding the connection lost, connects again.
IsConnectedReconnects ==
    /\ life = "alive"
    /\ LET r == is_connected
           again == IF r.ret THEN <<>>
                    ELSE <<Call("PQconnectdb", nHandles + 1,
                                BuildStringFromOptions(
                                    ExtractOptionsFromSpaceSeparatedString(
                                        connectionParameters_), "'"), "")>>
       IN  /\ lastRet' = IF r.ret THEN "true" ELSE "false"
           /\ calls' = r.calls \o again
           /\ status' = IF r.ret THEN r.status ELSE CONNECTION_OK
           /\ linkUp' = (linkUp \/ ~r.ret)
           /\ conn_' = IF r.ret THEN conn_ ELSE nHandles + 1
           /\ Account(r.calls \o again)
    /\ lastOp' = "is_connected"
    /\ lastArg' = ""
    /\ lastErr' = ""
    /\ UNCHANGED <<traceFile_, single_row_mode_, statementCount_,
                   connectionParameters_, deallocatePreparedStatements_, life,
                   build, inTx, historyVars, otherVars>>

IsConnected ==
    /\ life = "alive"
    /\ LET r == is_connected
       IN  /\ lastRet' = IF r.ret THEN "true" ELSE "false"
           /\ calls' = r.calls
           /\ status' = r.status
           /\ Account(r.calls)
    /\ lastOp' = "is_connected"
    /\ lastArg' = ""
    /\ lastErr' = ""
    /\ UNCHANGED <<sessionVars, life, build, linkUp, inTx, historyVars,
                   otherVars>>

\* ------------------------------------------------ transactions, statements
\* begin() that sends BEGIN once more when the engine rejected it.
begin_retries(accepted) ==
    LET first == hard_exec(conn_, "BEGIN", "Cannot begin transaction.", accepted)
    IN  IF accepted THEN first
        ELSE [err |-> first.err, calls |-> first.calls \o first.calls]

begin(accepted) ==
    hard_exec(conn_, "BEGIN", "Cannot begin transaction.", accepted)

commit(accepted) ==
    hard_exec(conn_, "COMMIT", "Cannot commit transaction.", accepted)

rollback(accepted) ==
    hard_exec(conn_, "ROLLBACK", "Cannot rollback transaction.", accepted)

\* deallocate_prepared_statement() that does not read the configuration.
deallocate_prepared_statement_always(statementName, accepted) ==
    hard_exec(conn_, "DEALLOCATE " \o statementName,
              "Cannot deallocate prepared statement.", accepted)

deallocate_prepared_statement(statementName, accepted) ==
    IF ~deallocatePreparedStatements_
      THEN [err |-> "", calls |-> <<>>]
      ELSE hard_exec(conn_, "DEALLOCATE " \o statementName,
                     "Cannot deallocate prepared statement.", accepted)

deallocate_all_prepared_statements(accepted) ==
    hard_exec(conn_, "DEALLOCATE ALL",
              "Cannot deallocate all prepared statements.", accepted)

\* The effect of an operation that ran as r (its error and its calls) and
\* leaves the engine's transaction open or not (tx).
ExecEffect(r, tx) ==
    /\ lastErr' = r.err
    /\ lastRet' = ""
    /\ calls' = r.calls
    /\ Account(r.calls)
    /\ status' = IF CallsOf(r.calls, "PQexec") = <<>> THEN status
                                                      ELSE StatusAfterExec
    /\ inTx' = tx
    /\ UNCHANGED <<sessionVars, life, build, linkUp, historyVars, otherVars>>

Begin ==
    /\ life = "alive"
    /\ \E accepted \in MayAccept :
         ExecEffect(begin(accepted), (inTx \/ accepted) /\ linkUp)
    /\ lastOp' = "begin"
    /\ lastArg' = ""

Commit ==
    /\ life = "alive"
    /\ \E accepted \in MayAccept :
         ExecEffect(commit(accepted), inTx /\ ~accepted /\ linkUp)
    /\ lastOp' = "commit"
    /\ lastArg' = ""

Rollback ==
    /\ life = "alive"
    /\ \E accepted \in MayAccept :
         ExecEffect(rollback(accepted), inTx /\ ~accepted /\ linkUp)
    /\ lastOp' = "rollback"
    /\ lastArg' = ""

\* The statement names a caller may pass: those handed out, and one that
\* was not.
StatementNames == {returnedNames[i] : i \in 1..Len(returnedNames)} \cup {"mine"}

DeallocatePreparedStatement ==
    /\ life = "alive"
    /\ \E statementName \in StatementNames, accepted \in MayAccept :
         /\ ExecEffect(deallocate_prepared_statement(statementName, accepted), inTx)
         /\ lastArg' = statementName
    /\ lastOp' = "deallocate_prepared_statement"

DeallocateAllPreparedStatements ==
    /\ life = "alive"
    /\ \E accepted \in MayAccept :
         ExecEffect(deallocate_all_prepared_statements(accepted), inTx)
    /\ lastOp' = "deallocate_all_prepared_statements"
    /\ lastArg' = ""

\* ------------------------------------------------ get_next_statement_name
\* get_next_statement_name() that formats the counter and does not
\* increment it.
get_next_statement_name_reuses ==
    [count |-> statementCount_,
     ret |-> "st_" \o ToString(statementCount_)]

\* get_next_statement_name(): the counter incremented, and "st_" followed by
\* its new value.
get_next_statement_name ==
    [count |-> statementCount_ + 1,
     ret |-> "st_" \o ToString(statementCount_ + 1)]

GetNextStatementName ==
    /\ life = "alive"
    /\ statementCount_ < MaxStatements
    /\ LET r == get_next_statement_name
       IN  /\ statementCount_' = r.count
           /\ lastRet' = r.ret
           /\ returnedNames' = Append(returnedNames, r.ret)
    /\ lastOp' = "get_next_statement_name"
    /\ lastArg' = ""
    /\ lastErr' = ""
    /\ calls' = <<>>
    /\ UNCHANGED <<conn_, traceFile_, single_row_mode_, connectionParameters_,
                   deallocatePreparedStatements_, life, build, resourceVars,
                   engineVars, nConnects, phase, cleanNoConnect, otherVars>>

\* ------------------------------------------------------ the specification
Next ==
    \/ Construct(LifeParameters)
    \/ Connect(LifeParameters)
    \/ CleanUp
    \/ Destroy
    \/ DropLink
    \/ IsConnected
    \/ Begin
    \/ Commit
    \/ Rollback
    \/ DeallocatePreparedStatement
    \/ DeallocateAllPreparedStatements
    \/ GetNextStatementName

Init == InitIn(LifeBuilds)

Spec == Init /\ [][Next]_vars

\* The constructor alone, over every combination of options.
NextOptions == Construct(AllParameters)

InitOptions == InitIn(Builds)

SpecOptions == InitOptions /\ [][NextOptions]_vars

\* ============================================== Firebird value marshalling
\* The sqltype codes of ibase.h; the low bit says that the column is nullable.
SQL_VARYING == 448
SQL_TEXT == 452
SQL_DOUBLE == 480
SQL_LONG == 496
SQL_SHORT == 500
SQL_TIMESTAMP == 510
SQL_BLOB == 520
SQL_TYPE_TIME == 560
SQL_TYPE_DATE == 570
SQL_INT64 == 580

\* sqltype & ~1
WithoutNullBit(sqltype) == sqltype - (sqltype % 2)

\* A byte of a buffer is 0..255; Uninit stands for a byte nothing has written
\* since operator new[] returned the buffer.
Uninit == 0 - 1

\* The character codes of the texts.
Space == 32
Plus == 43
Minus == 45
Period == 46
Digit0 == 48
Colon == 58
LetterT == 84
LetterA == 97

\* The n low bytes of the two's complement of v, in the build's byte order.
RECURSIVE LowBytesFirst(_, _)
LowBytesFirst(v, n) ==
    IF n = 0 THEN <<>> ELSE <<v % 256>> \o LowBytesFirst(v \div 256, n - 1)

Reverse(s) == [i \in 1..Len(s) |-> s[Len(s) + 1 - i]]

IntBytes(v, n, a) ==
    IF a.littleEndian THEN LowBytesFirst(v, n) ELSE Reverse(LowBytesFirst(v, n))

\* The signed integer that the bytes bs hold in the build's byte order.
RECURSIVE UnsignedOf(_)
UnsignedOf(low) ==
    IF low = <<>> THEN 0 ELSE Head(low) + 256 * UnsignedOf(Tail(low))

RECURSIVE Power(_, _)
Power(b, n) == IF n = 0 THEN 1 ELSE b * Power(b, n - 1)

BytesInt(bs, a) ==
    LET low == IF a.littleEndian THEN bs ELSE Reverse(bs)
    IN  IF low[Len(low)] >= 128
          THEN 0 - (UnsignedOf([i \in 1..Len(low) |-> 255 - low[i]]) + 1)
          ELSE UnsignedOf(low)

\* memcpy(b + off, bytes, Len(bytes)): the buffer afterwards; a byte past the
\* end of the allocation lands outside b.
Store(b, off, bytes) ==
    [i \in 1..Len(b) |->
        IF i > off /\ i <= off + Len(bytes) THEN bytes[i - off] ELSE b[i]]

\* The offsets that a write of n bytes at off touches.
Offsets(off, n) == off..(off + n - 1)

\* allocBuffer() that sizes a temporal slot by the encoded ISC_TIMESTAMP.
allocBuffer_encoded_size(v, a) ==
    LET type == WithoutNullBit(v.sqltype)
        size == IF type = SQL_VARYING THEN v.sqllen + SizeofShort
                ELSE IF type \in {SQL_TIMESTAMP, SQL_TYPE_TIME, SQL_TYPE_DATE}
                  THEN SizeofIscTimestamp
                ELSE v.sqllen
    IN  [i \in 1..size |-> Uninit]

\* allocBuffer() that gives a varying text its declared length alone.
allocBuffer_no_prefix(v, a) ==
    LET type == WithoutNullBit(v.sqltype)
        size == IF type \in {SQL_TIMESTAMP, SQL_TYPE_TIME, SQL_TYPE_DATE}
                  THEN a.sizeofTm
                ELSE v.sqllen
    IN  [i \in 1..size |-> Uninit]

\* allocBuffer(var): new char[size], with size = sqllen + sizeof(short) for
\* SQL_VARYING, sizeof(std::tm) for the three temporal types, sqllen else.
allocBuffer(v, a) ==
    LET type == WithoutNullBit(v.sqltype)
        size == IF type = SQL_VARYING THEN v.sqllen + SizeofShort
                ELSE IF type \in {SQL_TIMESTAMP, SQL_TYPE_TIME, SQL_TYPE_DATE}
                  THEN a.sizeofTm
                ELSE v.sqllen
    IN  [i \in 1..size |-> Uninit]

\* static_cast<short>(size)
ShortOf(size) == ((size + 32768) % 65536) - 32768

\* What setTextParam() leaves: the error it threw ("" if none), the buffer,
\* and the offsets it wrote.
Threw(err, b) == [err |-> err, buf |-> b, written |-> {}]
Wrote(b, offsets) == [err |-> "", buf |-> b, written |-> offsets]

\* The varying branch that also pads the text to the declared length.
WriteVarying_pads(s, sz, v, b, a) ==
    LET b1 == Store(b, 0, IntBytes(sz, SizeofShort, a))
        b2 == Store(b1, SizeofShort, SubSeq(s, 1, sz))
        b3 == Store(b2, SizeofShort + sz, [i \in 1..(v.sqllen - sz) |-> Space])
    IN  Wrote(b3, Offsets(0, SizeofShort + v.sqllen))

\* SQL_VARYING: memcpy of sz, then memcpy of the sz bytes of s behind it.
WriteVarying(s, sz, v, b, a) ==
    LET b1 == Store(b, 0, IntBytes(sz, SizeofShort, a))
        b2 == Store(b1, SizeofShort, SubSeq(s, 1, sz))
    IN  Wrote(b2, Offsets(0, SizeofShort) \cup Offsets(SizeofShort, sz))

\* The fixed branch without its memset.
WriteFixed_no_padding(s, sz, v, b) ==
    Wrote(Store(b, 0, SubSeq(s, 1, sz)), Offsets(0, sz))

\* SQL_TEXT: memcpy of the sz bytes of s, then spaces up to sqllen.
WriteFixed(s, sz, v, b) ==
    LET b1 == Store(b, 0, SubSeq(s, 1, sz))
    IN  IF sz < v.sqllen
          THEN Wrote(Store(b1, sz, [i \in 1..(v.sqllen - sz) |-> Space]),
                     Offsets(0, sz) \cup Offsets(sz, v.sqllen - sz))
          ELSE Wrote(b1, Offsets(0, sz))

\* The error of a text longer than the column.
TooLong(size, sqllen) ==
    "Value is too long (" \o ToString(size)
        \o " bytes) to be stored in column of size " \o ToString(sqllen) \o " bytes"

\* The text branch that cuts a text longer than the column to its length.
SetText_truncates(s, v, b, a) ==
    LET size == IF Len(s) > v.sqllen THEN v.sqllen ELSE Len(s)
        sz == ShortOf(size)
    IN  IF WithoutNullBit(v.sqltype) = SQL_VARYING
          THEN WriteVarying(s, sz, v, b, a)
          ELSE WriteFixed(s, sz, v, b)

\* setTextParam(), SQL_VARYING or SQL_TEXT: the length check, then the write.
SetText(s, v, b, a) ==
    LET size == Len(s)
        sz == ShortOf(size)
    IN  IF size > v.sqllen THEN Threw(TooLong(size, v.sqllen), b)
        ELSE IF WithoutNullBit(v.sqltype) = SQL_VARYING
          THEN WriteVarying(s, sz, v, b, a)
        ELSE WriteFixed(s, sz, v, b)

\* ------------------------------------------------------------ soci::sscanf
WhiteSpace == {9, 10, 11, 12, 13, Space}

IsDigitByte(c) == c >= Digit0 /\ c <= Digit0 + 9

RECURSIVE SkipSpace(_, _)
SkipSpace(s, i) ==
    IF i <= Len(s) /\ s[i] \in WhiteSpace THEN SkipSpace(s, i + 1) ELSE i

RECURSIVE DigitsEnd(_, _)
DigitsEnd(s, i) ==
    IF i <= Len(s) /\ IsDigitByte(s[i]) THEN DigitsEnd(s, i + 1) ELSE i

RECURSIVE DecimalValue(_)
DecimalValue(ds) ==
    IF ds = <<>> THEN 0
    ELSE 10 * DecimalValue(SubSeq(ds, 1, Len(ds) - 1)) + (ds[Len(ds)] - Digit0)

\* %hu at position i of s: white space skipped, an optional sign, digits;
\* the value stored in the unsigned short, and the position behind it.
ScanHu(s, i) ==
    LET j == SkipSpace(s, i)
        signed == j <= Len(s) /\ s[j] \in {Plus, Minus}
        k == IF signed THEN j + 1 ELSE j
        e == DigitsEnd(s, k)
        magnitude == DecimalValue(SubSeq(s, k, e - 1))
    IN  [ok |-> e > k,
         value |-> (IF signed /\ s[j] = Minus THEN 0 - magnitude ELSE magnitude)
                      % 65536,
         next |-> e]

\* sscanf(s, fmt, ...) from position i on: the values converted until the
\* first directive that does not match.  A directive is <<"%hu">>, <<"space">>
\* (any run of white space, also none) or <<"char", c>>, a character to match.
RECURSIVE ScanFrom(_, _, _, _)
ScanFrom(s, i, fmt, vals) ==
    IF fmt = <<>> THEN vals
    ELSE IF Head(fmt)[1] = "%hu"
      THEN LET r == ScanHu(s, i)
           IN  IF r.ok THEN ScanFrom(s, r.next, Tail(fmt), Append(vals, r.value))
                       ELSE vals
    ELSE IF Head(fmt)[1] = "space"
      THEN ScanFrom(s, SkipSpace(s, i), Tail(fmt), vals)
    ELSE IF i <= Len(s) /\ s[i] = Head(fmt)[2]
      THEN ScanFrom(s, i + 1, Tail(fmt), vals)
    ELSE vals

\* The values sscanf stored; their number is what it returns (where the C
\* function returns EOF, none was stored).
Sscanf(s, fmt) == ScanFrom(s, 1, fmt, <<>>)

\* "%hu-%hu-%hu %hu:%hu:%hu", "%hu-%hu-%huT%hu:%hu:%hu", "%hu-%hu-%hu" and
\* "%hu:%hu:%hu".
FmtDate == <<<<"%hu">>, <<"char", Minus>>, <<"%hu">>, <<"char", Minus>>, <<"%hu">>>>
FmtTime == <<<<"%hu">>, <<"char", Colon>>, <<"%hu">>, <<"char", Colon>>, <<"%hu">>>>
FmtTimestamp == FmtDate \o <<<<"space">>>> \o FmtTime
FmtTimestampT == FmtDate \o <<<<"char", LetterT>>>> \o FmtTime

\* ----------------------------------------------------------------- std::tm
\* A std::tm after memset(&t, 0, sizeof(t)).
ZeroTm ==
    [tm_sec |-> 0, tm_min |-> 0, tm_hour |-> 0, tm_mday |-> 0, tm_mon |-> 0,
     tm_year |-> 0, tm_wday |-> 0, tm_yday |-> 0, tm_isdst |-> 0]

\* The bytes of a std::tm: its nine ints, and zeros up to sizeof(std::tm).
TmBytes(t, a) ==
    IntBytes(t.tm_sec, SizeofInt, a) \o IntBytes(t.tm_min, SizeofInt, a)
      \o IntBytes(t.tm_hour, SizeofInt, a) \o IntBytes(t.tm_mday, SizeofInt, a)
      \o IntBytes(t.tm_mon, SizeofInt, a) \o IntBytes(t.tm_year, SizeofInt, a)
      \o IntBytes(t.tm_wday, SizeofInt, a) \o IntBytes(t.tm_yday, SizeofInt, a)
      \o IntBytes(t.tm_isdst, SizeofInt, a)
      \o [i \in 1..(a.sizeofTm - 9 * SizeofInt) |-> 0]

\* isc_encode_sql_date: the day number of the date, counted from 17 November
\* 1858.
IscDate(t) ==
    LET month0 == t.tm_mon + 1
        year0 == t.tm_year + 1900
        month == IF month0 > 2 THEN month0 - 3 ELSE month0 + 9
        year == IF month0 > 2 THEN year0 ELSE year0 - 1
        c == year \div 100
        ya == year - 100 * c
    IN  (146097 * c) \div 4 + (1461 * ya) \div 4 + (153 * month + 2) \div 5
          + t.tm_mday + 1721119 - 2400001

\* The n low bytes of x * m + carry, low byte first.
RECURSIVE ProductLowBytes(_, _, _, _)
ProductLowBytes(x, m, n, carry) ==
    IF n = 0 THEN <<>>
    ELSE LET p == (x % 256) * m + carry
         IN  <<p % 256>> \o ProductLowBytes(x \div 256, m, n - 1, p \div 256)

\* isc_encode_sql_time: the time of day in 1/10000 of a second, an ISC_TIME.
IscTimeBytes(t, a) ==
    LET seconds == (t.tm_hour * 60 + t.tm_min) * 60 + t.tm_sec
        low == ProductLowBytes(seconds, 10000, SizeofIscTime, 0)
    IN  IF a.littleEndian THEN low ELSE Reverse(low)

\* tmEncode(type, src, dst): the encoding of the calendar value written at
\* dst, by the function of the type.
tmEncode(type, t, b, a) ==
    LET date == IntBytes(IscDate(t), SizeofIscDate, a)
        time == IscTimeBytes(t, a)
    IN  CASE WithoutNullBit(type) = SQL_TIMESTAMP
               -> Wrote(Store(b, 0, date \o time), Offsets(0, SizeofIscTimestamp))
          [] WithoutNullBit(type) = SQL_TYPE_TIME
               -> Wrote(Store(b, 0, time), Offsets(0, SizeofIscTime))
          [] WithoutNullBit(type) = SQL_TYPE_DATE
               -> Wrote(Store(b, 0, date), Offsets(0, SizeofIscDate))
          [] OTHER -> Threw("Unexpected type of date/time field", b)

\* memcpy(buf_, &t, sizeof(t)) and tmEncode(var->sqltype, &t, buf_).
WriteTm(t, v, b, a) ==
    LET copied == Store(b, 0, TmBytes(t, a))
        encoded == tmEncode(v.sqltype, t, copied, a)
    IN  IF encoded.err # "" THEN Threw(encoded.err, copied)
        ELSE Wrote(encoded.buf, Offsets(0, a.sizeofTm) \cup encoded.written)

\* The six unsigned shorts year, month, day, hour, min, sec of setTextParam()
\* before any sscanf: declared, not initialised.
NoFields == [i \in 1..6 |-> Uninit]

\* What a sscanf that converted vals leaves in the variables whose addresses
\* it was given: the converted values in the first ones, the others as they
\* were.
Stored(vals, old) ==
    [i \in 1..Len(old) |-> IF i <= Len(vals) THEN vals[i] ELSE old[i]]

\* hour = min = sec = 0.
Midnight(f) == [f EXCEPT ![4] = 0, ![5] = 0, ![6] = 0]

\* The std::tm filled from year, month, day, hour, min, sec and written.
WriteFields(f, v, b, a) ==
    WriteTm([ZeroTm EXCEPT !.tm_year = f[1] - 1900, !.tm_mon = f[2] - 1,
                           !.tm_mday = f[3], !.tm_hour = f[4],
                           !.tm_min = f[5], !.tm_sec = f[6]],
            v, b, a)

\* setTextParam(), SQL_TIMESTAMP or SQL_TYPE_DATE, without line 147: the time
\* of a date alone is what the failed attempts stored.
SetTimestamp_keeps_time(s, v, b, a) ==
    LET r1 == Sscanf(s, FmtTimestamp)
        f1 == Stored(r1, NoFields)
        r2 == Sscanf(s, FmtTimestampT)
        f2 == Stored(r2, f1)
        r3 == Sscanf(s, FmtDate)
        f3 == Stored(r3, f2)
    IN  IF Len(r1) = 6 THEN WriteFields(f1, v, b, a)
        ELSE IF Len(r2) = 6 THEN WriteFields(f2, v, b, a)
        ELSE IF Len(r3) # 3 THEN Threw("Could not parse timestamp value.", b)
        ELSE WriteFields(f3, v, b, a)

\* setTextParam(), SQL_TIMESTAMP or SQL_TYPE_DATE: the three formats in
\* their order, each sscanf storing what it converted before it fails, and
\* the time set to midnight before the date alone is tried.
SetTimestamp(s, v, b, a) ==
    LET r1 == Sscanf(s, FmtTimestamp)
        f1 == Stored(r1, NoFields)
        r2 == Sscanf(s, FmtTimestampT)
        f2 == Stored(r2, f1)
        r3 == Sscanf(s, FmtDate)
        f3 == Stored(r3, Midnight(f2))
    IN  IF Len(r1) = 6 THEN WriteFields(f1, v, b, a)
        ELSE IF Len(r2) = 6 THEN WriteFields(f2, v, b, a)
        ELSE IF Len(r3) # 3 THEN Threw("Could not parse timestamp value.", b)
        ELSE WriteFields(f3, v, b, a)

\* setTextParam(), SQL_TYPE_TIME.
SetTime(s, v, b, a) ==
    LET r == Sscanf(s, FmtTime)
    IN  IF Len(r) # 3
          THEN Threw("Could not parse timestamp value.", b)
          ELSE WriteTm([ZeroTm EXCEPT !.tm_hour = r[1], !.tm_min = r[2],
                                      !.tm_sec = r[3]],
                       v, b, a)

\* -------------------------------------------- parse_decimal, format_decimal
\* The largest value of a signed integer of n bytes that the model's
\* arithmetic holds: of int16_t and int32_t.
MaxOfWidth(n) == IF n = 2 THEN 32767 ELSE INT_MAX

\* The error of a text that is no decimal number of the column.
DecimalError == "Could not parse decimal value."

\* parse_decimal<IntType, UIntType>(buf_, var, s): an optional sign, digits
\* and an optional fractional part, no more fractional digits than the
\* column's scale holds; the magnitude at the column's scale, within the
\* range of IntType, written at buf_.
parse_decimal(n, s, v, b, a) ==
    LET signed == s # <<>> /\ s[1] \in {Plus, Minus}
        body == IF signed THEN Tail(s) ELSE s
        periods == {i \in 1..Len(body) : body[i] = Period}
        point == IF periods = {} THEN Len(body) + 1 ELSE CHOOSE i \in periods : TRUE
        digits == SubSeq(body, 1, point - 1) \o SubSeq(body, point + 1, Len(body))
        fraction == Len(body) - point
        places == 0 - v.sqlscale
        wellFormed == /\ Cardinality(periods) <= 1
                      /\ digits # <<>>
                      /\ \A i \in 1..Len(digits) : IsDigitByte(digits[i])
                      /\ fraction <= places
        shift == IF periods = {} THEN places ELSE places - fraction
        magnitude == DecimalValue(digits) * Power(10, shift)
        value == IF signed /\ s[1] = Minus THEN 0 - magnitude ELSE magnitude
    IN  IF ~wellFormed THEN Threw(DecimalError, b)
        ELSE IF n < 8 /\ (value > MaxOfWidth(n) \/ value < 0 - MaxOfWidth(n) - 1)
          THEN Threw(DecimalError, b)
        ELSE Wrote(Store(b, 0, IntBytes(value, n, a)), Offsets(0, n))

RECURSIVE DecimalDigits(_)
DecimalDigits(m) ==
    IF m < 10 THEN <<Digit0 + m>>
    ELSE DecimalDigits(m \div 10) \o <<Digit0 + (m % 10)>>

\* format_decimal<IntType>(sqldata, sqlscale): the integer at sqldata as
\* decimal text, the point |sqlscale| digits from the right.
format_decimal(n, b, scale, a) ==
    LET value == BytesInt(SubSeq(b, 1, n), a)
        places == 0 - scale
        magnitude == IF value < 0 THEN 0 - value ELSE value
        raw == DecimalDigits(magnitude)
        zeros == IF Len(raw) < places + 1 THEN places + 1 - Len(raw) ELSE 0
        digits == [i \in 1..zeros |-> Digit0] \o raw
        whole == SubSeq(digits, 1, Len(digits) - places)
        part == SubSeq(digits, Len(digits) - places + 1, Len(digits))
    IN  (IF value < 0 THEN <<Minus>> ELSE <<>>)
          \o whole \o (IF places > 0 THEN <<Period>> \o part ELSE <<>>)

\* ------------------------------------------- setTextParam, getTextParam
\* setTextParam(s, size, buf_, var) with size the length of s.
setTextParam(s, v, b, a) ==
    LET sqltype == WithoutNullBit(v.sqltype)
    IN  IF sqltype = SQL_VARYING \/ sqltype = SQL_TEXT THEN SetText(s, v, b, a)
        ELSE IF sqltype = SQL_SHORT THEN parse_decimal(2, s, v, b, a)
        ELSE IF sqltype = SQL_LONG THEN parse_decimal(4, s, v, b, a)
        ELSE IF sqltype = SQL_INT64 THEN parse_decimal(8, s, v, b, a)
        ELSE IF sqltype = SQL_TIMESTAMP \/ sqltype = SQL_TYPE_DATE
          THEN SetTimestamp(s, v, b, a)
        ELSE IF sqltype = SQL_TYPE_TIME THEN SetTime(s, v, b, a)
        ELSE Threw("Unexpected string type.", b)

\* What getTextParam() leaves: the error it threw or the string it returned.
Returned(ret) == [err |-> "", ret |-> ret]
ReadThrew(err) == [err |-> err, ret |-> <<>>]

\* getTextParam() that decodes an SQL_LONG column as int16_t.
getTextParam_narrow(v, b, a) ==
    LET sqltype == WithoutNullBit(v.sqltype)
        size == BytesInt(SubSeq(b, 1, SizeofShort), a)
    IN  IF sqltype = SQL_VARYING
          THEN Returned(SubSeq(b, SizeofShort + 1, SizeofShort + size))
        ELSE IF sqltype = SQL_TEXT THEN Returned(SubSeq(b, 1, v.sqllen))
        ELSE IF sqltype = SQL_SHORT THEN Returned(format_decimal(2, b, v.sqlscale, a))
        ELSE IF sqltype = SQL_LONG THEN Returned(format_decimal(2, b, v.sqlscale, a))
        ELSE IF sqltype = SQL_INT64 THEN Returned(format_decimal(8, b, v.sqlscale, a))
        ELSE ReadThrew("Unexpected string type")

\* getTextParam(var), with b the bytes at var->sqldata.
getTextParam(v, b, a) ==
    LET sqltype == WithoutNullBit(v.sqltype)
        size == BytesInt(SubSeq(b, 1, SizeofShort), a)
    IN  IF sqltype = SQL_VARYING
          THEN Returned(SubSeq(b, SizeofShort + 1, SizeofShort + size))
        ELSE IF sqltype = SQL_TEXT THEN Returned(SubSeq(b, 1, v.sqllen))
        ELSE IF sqltype = SQL_SHORT THEN Returned(format_decimal(2, b, v.sqlscale, a))
        ELSE IF sqltype = SQL_LONG THEN Returned(format_decimal(4, b, v.sqlscale, a))
        ELSE IF sqltype = SQL_INT64 THEN Returned(format_decimal(8, b, v.sqlscale, a))
        ELSE ReadThrew("Unexpected string type")

\* ---------------------------------------------------------- copy_from_blob
\* The error of a blob that delivered fewer bytes than its length.
ShortRead(len_read, len_total) ==
    "Read " \o ToString(len_read) \o " bytes instead of expected "
        \o ToString(len_total) \o " from Firebird text blob object"

\* copy_from_blob() that returns what it has read.
copy_from_blob_truncates(e) ==
    [err |-> "", out |-> e.read]

\* copy_from_blob(st, buf, out), where e.len_total is what blob.get_len()
\* answers and e.read the bytes blob.read_from_start() delivers: out
\* resized to len_total, the bytes read at its start.
copy_from_blob(e) ==
    LET len_total == e.len_total
        len_read == Len(e.read)
        out == [i \in 1..len_total |-> IF i <= len_read THEN e.read[i] ELSE 0]
    IN  [err |-> IF len_read # len_total THEN ShortRead(len_read, len_total) ELSE "",
         out |-> out]

\* ---------------------------------------------------------------- inputs
\* The longest declared length of a text column, the longest blob.
MaxLen == 2
MaxBlob == 4

\* The code of a character.
Ord(c) ==
    CASE IsDigit(c) -> Digit0 + DigitValue(c)
      [] c = " " -> Space
      [] c = "+" -> Plus
      [] c = "-" -> Minus
      [] c = "." -> Period
      [] c = ":" -> Colon
      [] c = "T" -> LetterT
      [] c = "a" -> LetterA

Bytes(chars) == [i \in 1..Len(chars) |-> Ord(chars[i])]

\* The byte strings of length at most n over the bytes of cs.
RECURSIVE StringsOver(_, _)
StringsOver(cs, n) ==
    IF n = 0 THEN {<<>>}
    ELSE LET shorter == StringsOver(cs, n - 1)
         IN  shorter \cup {Append(s, c) : s \in shorter, c \in cs}

\* The texts a caller writes: every text of letters and spaces one longer
\* than the longest column at most, and dates, times and numbers.
PlainTexts == StringsOver({LetterA, Space}, MaxLen + 1)
TemporalTexts ==
    {Bytes(<<"2", "0", "2", "0", "-", "0", "1", "-", "0", "2", " ", "0", "3", ":", "0", "4", ":", "0", "5">>),
     Bytes(<<"2", "0", "2", "0", "-", "0", "1", "-", "0", "2", "T", "0", "3", ":", "0", "4", ":", "0", "5">>),
     Bytes(<<"2", "0", "2", "0", "-", "0", "1", "-", "0", "2">>),
     Bytes(<<"0", "3", ":", "0", "4", ":", "0", "5">>),
     Bytes(<<"2", "0", "2", "0", "-", "0", "1", "-", "0", "2", " ", "0", "3", ":", "0", "4">>),
     Bytes(<<"1", "-", "2", "-", "3">>),
     Bytes(<<"2", "0", "2", "0", "-", "1", "3", "-", "4", "0">>)}
NumberTexts ==
    {Bytes(<<"1", "2">>),
     Bytes(<<"-", "1">>),
     Bytes(<<"1", ".", "5">>),
     Bytes(<<"1", ".", "2", "3", "4">>),
     Bytes(<<"4", "0", "0", "0", "0">>)}
Texts == PlainTexts \cup TemporalTexts \cup NumberTexts

\* The descriptors: a text column of each length, the temporal columns, the
\* numeric columns without and with two decimal places, and a double and a
\* blob column; each nullable or not.
Descriptors ==
    LET column(t, n, sc) ==
            {[sqltype |-> t + nullable, sqllen |-> n, sqlscale |-> sc] :
                nullable \in {0, 1}}
    IN  UNION ({column(t, n, 0) : t \in {SQL_TEXT, SQL_VARYING}, n \in 0..MaxLen}
               \cup {column(SQL_TIMESTAMP, 8, 0), column(SQL_TYPE_DATE, 4, 0),
                     column(SQL_TYPE_TIME, 4, 0), column(SQL_DOUBLE, 8, 0),
                     column(SQL_BLOB, 8, 0)}
               \cup {column(SQL_SHORT, 2, sc) : sc \in {0, 0 - 2}}
               \cup {column(SQL_LONG, 4, 0 - 2), column(SQL_INT64, 8, 0)})

\* What the blob of a copy_from_blob() does: its length, and the bytes it
\* delivers, never more than its length.
BlobOutcomes ==
    {e \in [len_total : 0..MaxBlob, read : StringsOver({LetterA, Space}, MaxBlob)] :
        Len(e.read) <= e.len_total}

\* ------------------------------------------------- the marshalling actions
pgVars == <<sessionVars, life, build, resourceVars, engineVars, historyVars,
            schemaVars>>

\* The bytes that getTextParam() reads have been written: the caller reads a
\* buffer that holds a value.
HoldsValue(v, b, a) ==
    LET sqltype == WithoutNullBit(v.sqltype)
        read == CASE sqltype = SQL_VARYING -> SizeofShort
                  [] sqltype = SQL_TEXT -> v.sqllen
                  [] sqltype = SQL_SHORT -> 2
                  [] sqltype = SQL_LONG -> 4
                  [] sqltype = SQL_INT64 -> 8
                  [] OTHER -> 0
    IN  \A i \in 1..read : b[i] # Uninit

\* A statement obtains the buffer of a column: buf = allocBuffer(var).
AllocBuffer ==
    /\ var = NoVar
    /\ \E v \in Descriptors :
         /\ var' = v
         /\ buf' = allocBuffer(v, abi)
    /\ written' = {}
    /\ lastOp' = "allocBuffer"
    /\ lastArg' = <<>>
    /\ lastErr' = ""
    /\ lastRet' = <<>>
    /\ calls' = <<>>
    /\ UNCHANGED <<pgVars, abi>>

\* setTextParam(s, size, buf, var) on the column's buffer.
SetTextParam ==
    /\ var # NoVar
    /\ \E s \in Texts :
         LET r == setTextParam(s, var, buf, abi)
         IN  /\ buf' = r.buf
             /\ written' = r.written
             /\ lastErr' = r.err
             /\ lastArg' = s
    /\ lastOp' = "setTextParam"
    /\ lastRet' = <<>>
    /\ calls' = <<>>
    /\ UNCHANGED <<pgVars, abi, var>>

\* getTextParam(var) with var->sqldata the column's buffer.
GetTextParam ==
    /\ var # NoVar
    /\ HoldsValue(var, buf, abi)
    /\ LET r == getTextParam(var, buf, abi)
       IN  /\ lastErr' = r.err
           /\ lastRet' = r.ret
    /\ written' = {}
    /\ lastOp' = "getTextParam"
    /\ lastArg' = <<>>
    /\ calls' = <<>>
    /\ UNCHANGED <<pgVars, abi, var, buf>>

\* copy_from_blob(st, buf, out): lastRet is `out` afterwards.
CopyFromBlob ==
    /\ \E e \in BlobOutcomes :
         LET r == copy_from_blob(e)
         IN  /\ lastErr' = r.err
             /\ lastRet' = r.out
             /\ lastArg' = <<e.len_total, Len(e.read)>>
    /\ written' = {}
    /\ lastOp' = "copy_from_blob"
    /\ calls' = <<>>
    /\ UNCHANGED <<pgVars, abi, var, buf>>

NextMarshal ==
    \/ AllocBuffer
    \/ SetTextParam
    \/ GetTextParam

\* No session takes part: its fields keep their initial values.
InitMarshalling ==
    /\ InitSession({HostBuild})
    /\ ~deallocatePreparedStatements_
    /\ InitMarshal(Abis)

SpecMarshal == InitMarshalling /\ [][NextMarshal]_vars

\* copy_from_blob() alone, over every blob.
NextBlob == CopyFromBlob

SpecBlob == InitMarshalling /\ [][NextBlob]_vars

\* ===================================================== schema introspection
\* The characters of the search path that the tokenizer tells apart.
DoubleQuote == "\""
SingleQuote == "'"
Comma == ","
Blank == " "

\* R"("$user", public)", the search path taken when the engine gives none,
\* and "$user", the name that stands for the current user.
DefaultSearchPath == <<"\"", "$", "u", "s", "e", "r", "\"", ",", " ", "p", "u", "b", "l", "i", "c">>
UserPlaceholder == <<"$", "u", "s", "e", "r">>

\* The string of a sequence of characters.
RECURSIVE Str(_)
Str(chars) == IF chars = <<>> THEN "" ELSE Head(chars) \o Str(Tail(chars))

\* PQescapeStringConn(conn, to, from, length, &error): the text with each
\* single quote doubled.
RECURSIVE PQescapeStringConn(_)
PQescapeStringConn(from) ==
    IF from = <<>> THEN <<>>
    ELSE (IF Head(from) = SingleQuote THEN <<SingleQuote, SingleQuote>>
                                      ELSE <<Head(from)>>)
           \o PQescapeStringConn(Tail(from))

\* quote() that puts the text between the quotes as it is.
quote_without_escaping(s, escaped) == <<SingleQuote>> \o s \o <<SingleQuote>>

\* quote(conn, s): the escaped text between single quotes, and nothing
\* between them when PQescapeStringConn reports an error.
quote(s, escaped) ==
    LET len_esc == IF escaped THEN PQescapeStringConn(s) ELSE <<>>
    IN  <<SingleQuote>> \o len_esc \o <<SingleQuote>>

\* One round of the tokenizer's loop, on the first character c of what is
\* left of the search path, that takes a comma for a separator in a quoted
\* segment too.
TokenizerRound_splits_quoted(c, t) ==
    IF c = DoubleQuote THEN [t EXCEPT !.quoted = ~t.quoted]
    ELSE IF c = Comma
      THEN [t EXCEPT !.names = Append(t.names, t.schema), !.schema = <<>>]
    ELSE IF c = Blank /\ ~t.quoted THEN t
    ELSE [t EXCEPT !.schema = Append(t.schema, c)]

\* One round of the tokenizer's loop, on the first character c of what is
\* left of the search path: t.quoted, t.schema and t.names afterwards.
TokenizerRound(c, t) ==
    IF c = DoubleQuote THEN [t EXCEPT !.quoted = ~t.quoted]
    ELSE IF (c = Comma \/ c = Blank) /\ ~t.quoted
      THEN IF c = Comma
             THEN [t EXCEPT !.names = Append(t.names, t.schema), !.schema = <<>>]
             ELSE t
    ELSE [t EXCEPT !.schema = Append(t.schema, c)]

RECURSIVE TokenizerLoop(_, _)
TokenizerLoop(search_path_content, t) ==
    IF search_path_content = <<>> THEN t
    ELSE TokenizerLoop(Tail(search_path_content),
                       TokenizerRound(Head(search_path_content), t))

\* The vector when the loop has ended and the last name, unless it is
\* empty, has been added.
Tokenize(search_path_content) ==
    LET t == TokenizerLoop(search_path_content,
                           [quoted |-> FALSE, schema |-> <<>>, names |-> <<>>])
    IN  IF t.schema # <<>> THEN Append(t.names, t.schema) ELSE t.names

\* postgresql_result::check_for_data(errMsg) on a result that is an error,
\* has no data (a command's result), or has rows: it throws errMsg, returns
\* false, returns true.
check_for_data(result, errMsg) ==
    [err |-> IF result = "error" THEN errMsg ELSE "",
     data |-> result \in {"no_rows", "row"}]


\* get_schema_names(session, conn), where e.show and e.current say what the
\* engine answers to SHOW search_path and to SELECT current_user ("error",
\* "no_data", "no_rows" or "row"), e.search_path and e.user are the values of
\* their rows, and e.escaped says that PQescapeStringConn reports no error.
\* `names` is the vector when the tokenizer loop has ended.
get_schema_names(conn, e) ==
    LET show == <<Call("PQexec", conn, "SHOW search_path", e.show)>>
        search_path_result == check_for_data(e.show, "search_path doesn't exist")
        reported == IF e.show = "row" THEN e.search_path ELSE <<>>
        search_path_content == IF reported = <<>> THEN DefaultSearchPath
                                                  ELSE reported
        names == Tokenize(search_path_content)
        placeholders == {i \in 1..Len(names) : names[i] = UserPlaceholder}
        current_user_result == check_for_data(e.current, "current_user is not defined")
        ask(n) == [i \in 1..n |-> Call("PQexec", conn, "SELECT current_user", e.current)]
        resolved(name) ==
            IF name = UserPlaceholder /\ current_user_result.data /\ e.current = "row"
              THEN e.user ELSE name
    IN  IF search_path_result.err # ""
          THEN [err |-> search_path_result.err, names |-> <<>>, list |-> <<>>,
                calls |-> show]
        ELSE IF ~search_path_result.data
          THEN [err |-> "", names |-> <<>>, list |-> <<>>, calls |-> show]
        ELSE IF placeholders # {} /\ current_user_result.err # ""
          THEN [err |-> current_user_result.err, names |-> names, list |-> <<>>,
                calls |-> show \o ask(1)]
        ELSE [err |-> "", names |-> names,
              list |-> [i \in 1..Len(names) |-> quote(resolved(names[i]), e.escaped)],
              calls |-> show \o ask(Cardinality(placeholders))]

\* create_list_of_strings(strings): the strings with ", " between them, as
\* the pieces written to the stream.
RECURSIVE create_list_of_strings(_)
create_list_of_strings(strings) ==
    IF strings = <<>> THEN <<>>
    ELSE IF Len(strings) = 1 THEN <<Str(strings[1])>>
    ELSE create_list_of_strings(SubSeq(strings, 1, Len(strings) - 1))
           \o <<", ", Str(strings[Len(strings)])>>

\* create_case_list_of_strings(list): " WHEN " list[i] " THEN " i for each
\* index i from 0 on, as the pieces written to the stream.
RECURSIVE create_case_list_of_strings(_)
create_case_list_of_strings(list) ==
    IF list = <<>> THEN <<>>
    ELSE create_case_list_of_strings(SubSeq(list, 1, Len(list) - 1))
           \o <<" WHEN ", Str(list[Len(list)]), " THEN ", ToString(Len(list) - 1)>>

\* The fixed texts of the two queries.
TableNamesHead ==
    "SELECT table_schema || '.' || table_name AS \"TABLE_NAME\" FROM information_schema.tables WHERE table_schema in ("
ColumnDescriptionsHead ==
    "WITH Schema AS ( SELECT table_schema FROM information_schema.columns WHERE table_name = :t AND CASE WHEN :s::VARCHAR is not NULL THEN table_schema = :s::VARCHAR ELSE table_schema in ("
ColumnDescriptionsOrder == ") END ORDER BY CASE table_schema"
ColumnDescriptionsTail ==
    " END LIMIT 1 ) SELECT column_name as \"COLUMN_NAME\", data_type as \"DATA_TYPE\", character_maximum_length as \"CHARACTER_MAXIMUM_LENGTH\", numeric_precision as \"NUMERIC_PRECISION\", numeric_scale as \"NUMERIC_SCALE\", is_nullable as \"IS_NULLABLE\" FROM information_schema.columns WHERE table_name = :t AND table_schema = ( SELECT table_schema FROM Schema )"

\* What a query builder leaves: the run g of get_schema_names() and the
\* pieces of the query it returned, none when get_schema_names() threw.
Built(g, pieces) ==
    [err |-> g.err, names |-> g.names, list |-> g.list, calls |-> g.calls,
     ret |-> IF g.err = "" THEN pieces ELSE <<>>]

\* get_table_names_query(): the schemas as the list of the filter.
get_table_names_query(e) ==
    LET g == get_schema_names(conn_, e)
    IN  Built(g, <<TableNamesHead>> \o create_list_of_strings(g.list) \o <<")">>)

\* get_column_descriptions_query() that ranks a schema outside the list
\* first.
get_column_descriptions_query_else_zero(e) ==
    LET g == get_schema_names(conn_, e)
    IN  Built(g, <<ColumnDescriptionsHead>> \o create_list_of_strings(g.list)
                   \o <<ColumnDescriptionsOrder>>
                   \o create_case_list_of_strings(g.list)
                   \o <<" ELSE ", ToString(0), ColumnDescriptionsTail>>)

\* get_column_descriptions_query(): the schemas as the list of the filter,
\* as the cases of the ordering, and their number as its ELSE.
get_column_descriptions_query(e) ==
    LET g == get_schema_names(conn_, e)
    IN  Built(g, <<ColumnDescriptionsHead>> \o create_list_of_strings(g.list)
                   \o <<ColumnDescriptionsOrder>>
                   \o create_case_list_of_strings(g.list)
                   \o <<" ELSE ", ToString(Len(g.list)), ColumnDescriptionsTail>>)

\* ---------------------------------------------------------------- inputs
\* The longest search path of those taken in full.
MaxPathLen == 3

\* The sequences of at most n of the characters cs.
RECURSIVE PathsOver(_, _)
PathsOver(cs, n) ==
    IF n = 0 THEN {<<>>}
    ELSE LET shorter == PathsOver(cs, n - 1)
         IN  shorter \cup {Append(s, c) : s \in shorter, c \in cs}

\* The search paths the engine reports: every short one of quotes, commas,
\* blanks and a letter, and some longer ones.
SearchPaths ==
    PathsOver({DoubleQuote, Comma, Blank, "a"}, MaxPathLen)
      \cup {DefaultSearchPath,
            <<"\"", "a", ",", "b", "\"", ",", " ", "c">>,
            <<"$", "u", "s", "e", "r", ",", "\"", "$", "u", "s", "e", "r", "\"">>,
            <<"o", "'", "k", ",", " ", "\"", "a", " ", "b", "\"">>}

\* The current user.
UserNames == {<<"a", "l", "i", "c", "e">>}

QueryResults == {"error", "no_data", "no_rows", "row"}

\* What the engine does during one get_schema_names() on a search path; a
\* field that the run leaves unread has one value.
SchemaOutcomesOn(show, path) ==
    LET names == IF show \in {"no_rows", "row"}
                   THEN Tokenize(IF path = <<>> THEN DefaultSearchPath ELSE path)
                   ELSE <<>>
    IN  {e \in [show : {show}, search_path : {path},
                current : QueryResults, user : UserNames, escaped : BOOLEAN] :
            /\ (\A i \in 1..Len(names) : names[i] # UserPlaceholder)
                 => e.current = "row"
            /\ (names = <<>> \/ e.current = "error") => e.escaped}

SchemaOutcomes ==
    UNION {SchemaOutcomesOn(show, path) :
              show \in QueryResults \ {"row"}, path \in {<<>>}}
      \cup UNION {SchemaOutcomesOn("row", path) : path \in SearchPaths}

\* -------------------------------------------------------------- actions
\* The effect of a query builder that ran as r on the outcome e.
SchemaEffect(r, e) ==
    /\ lastArg' = e
    /\ lastErr' = r.err
    /\ lastRet' = r.ret
    /\ calls' = r.calls
    /\ schema_names' = r.names
    /\ schema_list' = r.list
    /\ Account(r.calls)
    /\ status' = StatusAfterExec
    /\ UNCHANGED <<sessionVars, life, build, linkUp, inTx, historyVars, marshalVars>>

GetTableNamesQuery ==
    /\ life = "alive"
    /\ \E e \in SchemaOutcomes : SchemaEffect(get_table_names_query(e), e)
    /\ lastOp' = "get_table_names_query"

GetColumnDescriptionsQuery ==
    /\ life = "alive"
    /\ \E e \in SchemaOutcomes : SchemaEffect(get_column_descriptions_query(e), e)
    /\ lastOp' = "get_column_descriptions_query"

NextSchema ==
    \/ Construct({EmptyParameters})
    \/ GetTableNamesQuery
    \/ GetColumnDescriptionsQuery

InitSchema == InitIn({HostBuild}) /\ ~deallocatePreparedStatements_

SpecSchema == InitSchema /\ [][NextSchema]_vars

\* ================================================================ claims
ConnectOps == {"constructor", "connect"}

\* The handles the PQconnectdb calls of a log returned.
HandlesObtainedIn(log) ==
    {log[i].h : i \in {j \in 1..Len(log) :
                          log[j].fn = "PQconnectdb" /\ log[j].h # Null}}

\* The native connect of a log returned no handle, or one whose status is
\* not OK.
NativeConnectFailed(log) ==
    \E i \in 1..Len(log) :
        \/ log[i].fn = "PQconnectdb" /\ log[i].h = Null
        \/ log[i].fn = "PQstatus" /\ log[i].res # CONNECTION_OK

\* A step after the native connect failed: a socket call, or the engine
\* rejected the extra_float_digits command.
LaterStepFailed(log) ==
    \E i \in 1..Len(log) :
        \/ log[i].fn \in {"getsockname", "setsockopt"}
             /\ log[i].res \in {"getsockname_fails", "setsockopt_fails"}
        \/ log[i].fn = "PQexec" /\ log[i].res = "PGRES_FATAL_ERROR"

\* What a connect() attempt that failed must have done (C1): thrown, with
\* the engine's text when there was a handle, released the handle it
\* obtained once, and left conn_ and connectionParameters_ alone.
C1_FailedConnectStep ==
    lastOp' \in ConnectOps =>
      /\ (NativeConnectFailed(calls') \/ LaterStepFailed(calls')) => lastErr' # ""
      /\ NativeConnectFailed(calls') =>
           lastErr' = IF HandlesObtainedIn(calls') = {}
                        THEN "Cannot establish connection to the database."
                        ELSE "Cannot establish connection to the database.\nPQerrorMessage"
      /\ lastErr' # "" =>
           /\ conn_' = conn_
           /\ connectionParameters_' = connectionParameters_
           /\ \A h \in HandlesObtainedIn(calls') :
                /\ CountOn(calls', "PQfinish", h) = 1
                /\ calls'[Len(calls')] = Call("PQfinish", h, "", "")
                /\ finished'[h] = 1

\* C1: a connect() attempt in which the native connect returns no handle or
\* a handle whose status is not OK, or in which a later step fails (the
\* socket timeout, the extra_float_digits command), throws an error (with
\* the engine's message when a handle exists), releases the handle it
\* obtained exactly once before the error propagates, and leaves the stored
\* handle and the stored connection parameters unchanged; no handle is ever
\* released twice.
C1_FailedConnectReleasesHandle ==
    /\ [][C1_FailedConnectStep]_vars
    /\ [](\A h \in 1..nHandles : finished[h] <= 1)

\* C1's case: connect() on a connected session obtained a second handle,
\* the engine rejected extra_float_digits, and the new handle was released.
C1_Witness ==
    /\ lastOp = "connect"
    /\ lastErr = "Cannot set extra_float_digits parameter"
    /\ conn_ = 1
    /\ nHandles = 2
    /\ finished[2] = 1
    /\ finished[1] = 0

\* C2, as claimed: when a sequence of connect() attempts ends with clean_up()
\* or the destructor, every native handle obtained and every trace file
\* opened has been released exactly once.
C2_AllReleasedAtEnd ==
    lastOp \in {"clean_up", "destructor"} =>
      /\ \A h \in 1..nHandles : finished[h] = 1
      /\ \A f \in 1..nFiles : closed[f] = 1

C3_CleanUpStep ==
    lastOp' \in {"clean_up", "destructor"} =>
      /\ lastErr' = ""
      /\ conn_' = Null /\ traceFile_' = Null
      /\ conn_ # Null =>
           CountOn(calls', "PQfinish", conn_) = 1 /\ finished'[conn_] = 1
      /\ traceFile_ # Null =>
           CountOn(calls', "fclose", traceFile_) = 1 /\ closed'[traceFile_] = 1
      /\ cleanNoConnect =>
           calls' = <<>> /\ finished' = finished /\ closed' = closed

\* C3: clean_up() releases the native handle and closes the trace file
\* exactly once each, and a second clean_up() (or the destructor after an
\* explicit clean_up()) with no connect() in between makes no native
\* release, closes no file and raises no error.
C3_CleanUpIdempotent == [][C3_CleanUpStep]_vars

\* C3's case: a clean_up() that found nothing to release, after an earlier
\* clean_up() released a handle and a trace file.
C3_Witness ==
    /\ lastOp = "clean_up"
    /\ phase = "cleaned"
    /\ calls = <<>>
    /\ nHandles = 1 /\ finished[1] = 1
    /\ nFiles = 1 /\ closed[1] = 1

C4_HandleStep ==
    /\ (conn_' # conn_ /\ conn_' # Null) =>
         /\ lastOp' \in ConnectOps
         /\ lastErr' = ""
         /\ conn_' \in HandlesObtainedIn(calls')
         /\ finished'[conn_'] = 0
    /\ (lastOp' \in ConnectOps /\ lastErr' # "") => conn_' = conn_

\* C4: the connection handle is null before the first successful connect()
\* and after clean_up() until the next successful connect(); a failed
\* connect() never changes it, and only a fully successful connect() stores
\* a handle, the one it obtained and did not release.
C4_HandleNullUnlessConnected ==
    /\ [](phase \in {"fresh", "cleaned"} => conn_ = Null)
    /\ [][C4_HandleStep]_vars

\* C4's case: after clean_up(), a connect() obtained a handle and failed,
\* and the stored handle is still null.
C4_Witness ==
    /\ phase = "cleaned"
    /\ lastOp = "connect"
    /\ lastErr # ""
    /\ nHandles = 2
    /\ conn_ = Null

\* C5, as claimed: once is_connected() has returned false on a connected
\* session, the session is in the state clean_up() leaves, no handle held.
C5_FalseMeansCleanedUp ==
    (lastOp = "is_connected" /\ lastRet = "false" /\ phase = "connected") =>
      /\ conn_ = Null
      /\ \A h \in 1..nHandles : finished[h] = 1

C5_NoReconnectStep ==
    /\ lastOp' = "is_connected" =>
         /\ UNCHANGED sessionVars
         /\ UNCHANGED resourceVars
         /\ (lastRet' = "false" /\ conn_ # Null) =>
              /\ status' # CONNECTION_OK
              /\ finished'[conn_'] = 0
    /\ lastOp' \notin ConnectOps => CallsOf(calls', "PQconnectdb") = <<>>

\* C5, amended: is_connected() changes no field of the session and releases
\* nothing; when it returns false on a session that holds a handle, the
\* handle stays stored and unreleased with a status that is not OK, and no
\* operation other than connect() calls the native connect.
C5_FalseKeepsHandleNoReconnect == [][C5_NoReconnectStep]_vars

\* C5's case: is_connected() returned false on a connected session, whose
\* handle is still stored and not released.
C5_Witness ==
    /\ lastOp = "is_connected"
    /\ lastRet = "false"
    /\ phase = "connected"
    /\ conn_ # Null
    /\ finished[conn_] = 0

C6_IsConnectedStep ==
    lastOp' = "is_connected" =>
      IF PQstatus(conn_) # CONNECTION_OK
        THEN lastRet' = "false" /\ CallsOf(calls', "PQexec") = <<>>
        ELSE /\ CallsOf(calls', "PQexec")
                  = <<Call("PQexec", conn_, "/* ping */", "")>>
             /\ lastRet' = "true" <=> calls'[Len(calls')].res = CONNECTION_OK
             /\ calls'[Len(calls')].fn = "PQstatus"
             /\ calls'[Len(calls') - 1].fn = "PQexec"
             /\ ~linkUp => lastRet' = "false"

\* C6: is_connected() returns false and sends no command when the status of
\* the handle is not OK (a null handle included); otherwise it sends exactly
\* one no-op command and returns true exactly when the status read after it
\* is OK, so a connection lost out of band while its status was still OK
\* yields false.
C6_IsConnectedPings == [][C6_IsConnectedStep]_vars

\* C6's case: the status was OK, the connection had been lost, and
\* is_connected() sent its ping and returned false.
C6_Witness ==
    /\ lastOp = "is_connected"
    /\ lastRet = "false"
    /\ CallsOf(calls, "PQexec") # <<>>
    /\ calls[1].res = CONNECTION_OK

\* C7, as claimed: the option string given to the native connect holds none
\* of the private keys and every other option of connect()'s argument.
C7_PrivateKeysRemoved ==
    \A i \in 1..Len(calls) :
        calls[i].fn = "PQconnectdb" =>
          /\ KeysOf(calls[i].arg) \cap PrivateKeys = {}
          /\ \A t \in lastArg :
               t[1] \notin PrivateKeys =>
                 <<t[1], <<"'">> \o t[2] \o <<"'">>>> \in calls[i].arg

TransactionCommand(op) ==
    CASE op = "begin" -> "BEGIN"
      [] op = "commit" -> "COMMIT"
      [] op = "rollback" -> "ROLLBACK"

C8_TransactionStep ==
    lastOp' \in {"begin", "commit", "rollback"} =>
      /\ Len(calls') = 1
      /\ calls'[1].fn = "PQexec"
      /\ calls'[1].h = conn_
      /\ calls'[1].arg = TransactionCommand(lastOp')
      /\ lastErr' # "" <=> calls'[1].res # "PGRES_COMMAND_OK"
      /\ UNCHANGED sessionVars
      /\ UNCHANGED resourceVars

\* C8: begin(), commit() and rollback() each send exactly one command per
\* call (BEGIN, COMMIT, ROLLBACK), inside an open transaction or not, throw
\* exactly when the engine rejects it, never send it again, and change
\* neither the handle nor any other field of the session.
C8_OneCommandPerTransactionCall == [][C8_TransactionStep]_vars

\* C8's case: begin() inside an open transaction, sent as it is, rejected by
\* the engine and thrown.
C8_Witness ==
    /\ lastOp = "begin"
    /\ inTx
    /\ lastErr = "Cannot begin transaction."
    /\ Len(calls) = 1

\* C9: deallocate_prepared_statement(name) sends nothing when
\* deallocatePreparedStatements_ is off and else exactly one command, the
\* DEALLOCATE of that name; deallocate_all_prepared_statements() always
\* sends exactly one DEALLOCATE ALL.
C9_DeallocateCommands ==
    /\ lastOp = "deallocate_prepared_statement" =>
         IF ~deallocatePreparedStatements_
           THEN calls = <<>> /\ lastErr = ""
           ELSE /\ Len(calls) = 1
                /\ calls[1].fn = "PQexec"
                /\ calls[1].h = conn_
                /\ calls[1].arg = "DEALLOCATE " \o lastArg
    /\ lastOp = "deallocate_all_prepared_statements" =>
         /\ Len(calls) = 1
         /\ calls[1].fn = "PQexec"
         /\ calls[1].h = conn_
         /\ calls[1].arg = "DEALLOCATE ALL"

\* C9's case: deallocation is off, a name handed out earlier was given, and
\* nothing was sent.
C9_Witness ==
    /\ lastOp = "deallocate_prepared_statement"
    /\ ~deallocatePreparedStatements_
    /\ lastArg = "st_1"
    /\ conn_ # Null
    /\ calls = <<>>

C10_CounterStep ==
    IF lastOp' = "get_next_statement_name"
      THEN /\ statementCount_' > statementCount_
           /\ lastRet' = "st_" \o ToString(statementCount_')
           /\ \A i \in 1..Len(returnedNames) : returnedNames[i] # lastRet'
      ELSE statementCount_' = statementCount_

\* C10: every get_next_statement_name() returns the name of a counter value
\* greater than that of every earlier call, so no name is returned twice,
\* and no other operation (connect, clean_up, is_connected, the transaction
\* operations) changes the counter.
C10_StatementNamesIncrease ==
    /\ [][C10_CounterStep]_vars
    /\ [](\A i, j \in 1..Len(returnedNames) :
            i # j => returnedNames[i] # returnedNames[j])

\* C10's case: the second name was returned on a session that has been
\* cleaned up and connected again.
C10_Witness ==
    /\ lastOp = "get_next_statement_name"
    /\ returnedNames = <<"st_1", "st_2">>
    /\ nConnects = 2
    /\ phase = "connected"
    /\ finished[1] = 1

\* The tcp_user_timeout value the last connect() was given, and whether it
\* was given one.
HasTimeoutOption == \E t \in lastArg : t[1] = "tcp_user_timeout"
LastTimeoutStr == (CHOOSE t \in lastArg : t[1] = "tcp_user_timeout")[2]

\* The last operation was a connect() that took tcp_user_timeout out of the
\* options to apply it itself.
AppliesTimeout ==
    lastOp \in ConnectOps /\ ExtractsTimeout(build) /\ HasTimeoutOption

\* The native connect of the last connect() succeeded.
NativeSucceeded ==
    \E i \in 1..Len(calls) :
        calls[i].fn = "PQstatus" /\ calls[i].res = "CONNECTION_OK"

SetsockoptCalls == CallsOf(calls, "setsockopt")

\* Each setsockopt of the log comes after a PQstatus that answered OK.
SetsockoptAfterNativeConnect ==
    \A i \in 1..Len(calls) :
        calls[i].fn = "setsockopt"
          => \E j \in 1..(i - 1) :
                 calls[j].fn = "PQstatus" /\ calls[j].res = "CONNECTION_OK"

\* The errors set_tcp_user_timeout() throws.
TimeoutErrors ==
    {"Invalid value for tcp_user_timeout connection option",
     "Failed to set TCP_MAXRT option on the socket",
     "Failed to get socket address",
     "Failed to set TCP_USER_TIMEOUT option on the socket"}

\* The build can set a timeout on a socket.
PlatformSupport == build.win32 \/ build.tcpUserTimeout

ColumnIs(type) == var # NoVar /\ var.sqltype \in {type, type + 1}

Spaces(n) == [i \in 1..n |-> Space]

\* C12: a setTextParam() on a fixed or varying text column with a text
\* longer than the declared length throws and leaves every byte of the
\* buffer as it was.
C12_TooLongStep ==
    (/\ lastOp' = "setTextParam"
     /\ ColumnIs(SQL_TEXT) \/ ColumnIs(SQL_VARYING)
     /\ Len(lastArg') > var.sqllen)
      => /\ lastErr' # ""
         /\ buf' = buf
         /\ written' = {}
C12_TooLongLeavesBuffer == [][C12_TooLongStep]_vars

\* A too long text was refused on a buffer that holds an earlier value.
C12_Witness ==
    /\ lastOp = "setTextParam"
    /\ ColumnIs(SQL_TEXT) \/ ColumnIs(SQL_VARYING)
    /\ Len(lastArg) > var.sqllen
    /\ lastErr # ""
    /\ \E i \in 1..Len(buf) : buf[i] = LetterA

\* C13: a setTextParam() on a varying text column with n <= L bytes writes
\* the 2-byte prefix that holds n in the build's byte order and the n bytes
\* behind it, and no byte beyond them; the getTextParam() that follows
\* returns exactly the n bytes.
C13_VaryingStep ==
    /\ (/\ lastOp' = "setTextParam"
        /\ ColumnIs(SQL_VARYING)
        /\ Len(lastArg') <= var.sqllen)
         => LET n == Len(lastArg')
            IN  /\ lastErr' = ""
                /\ SubSeq(buf', 1, SizeofShort)
                     = (IF abi.littleEndian THEN <<n, 0>> ELSE <<0, n>>)
                /\ SubSeq(buf', SizeofShort + 1, SizeofShort + n) = lastArg'
                /\ \A i \in (SizeofShort + n + 1)..Len(buf) : buf'[i] = buf[i]
    /\ (/\ lastOp' = "getTextParam"
        /\ lastOp = "setTextParam"
        /\ lastErr = ""
        /\ ColumnIs(SQL_VARYING))
         => lastErr' = "" /\ lastRet' = lastArg
C13_VaryingRoundTrip == [][C13_VaryingStep]_vars

\* A varying text shorter than the column was read back, and the buffer
\* holds an older byte behind it.
C13_Witness ==
    /\ lastOp = "getTextParam"
    /\ ColumnIs(SQL_VARYING)
    /\ lastErr = ""
    /\ Len(lastRet) = 1
    /\ var.sqllen = MaxLen
    /\ buf[SizeofShort + MaxLen] = LetterA

\* C14: the getTextParam() that follows a setTextParam() of n <= L bytes on
\* a fixed text column returns exactly L bytes: the n bytes and L - n
\* spaces, none stripped.
C14_FixedStep ==
    (/\ lastOp' = "getTextParam"
     /\ lastOp = "setTextParam"
     /\ lastErr = ""
     /\ ColumnIs(SQL_TEXT))
      => /\ lastErr' = ""
         /\ Len(lastRet') = var.sqllen
         /\ lastRet' = lastArg \o Spaces(var.sqllen - Len(lastArg))
C14_FixedRoundTrip == [][C14_FixedStep]_vars

\* A fixed text was read back with its padding.
C14_Witness ==
    /\ lastOp = "getTextParam"
    /\ ColumnIs(SQL_TEXT)
    /\ var.sqllen = MaxLen
    /\ lastRet = <<LetterA>> \o Spaces(MaxLen - 1)

\* The column is one of the three temporal types, nullable or not.
TemporalColumn ==
    ColumnIs(SQL_TIMESTAMP) \/ ColumnIs(SQL_TYPE_DATE) \/ ColumnIs(SQL_TYPE_TIME)

\* C15 as stated: a temporal column's buffer has the size of the engine's
\* encoded timestamp and not the size of the calendar struct.
C15_TemporalSizedByEncoding ==
    TemporalColumn
      => Len(buf) = SizeofIscTimestamp /\ Len(buf) # abi.sizeofTm

\* C15: the buffer of a varying text column has the declared length plus
\* sizeof(short), the buffer of a temporal column has sizeof(std::tm), the
\* size of the calendar struct, and every other buffer has the declared
\* length; the nullable bit changes none of them.
C15_BufferSizes ==
    var # NoVar
      => Len(buf) = (IF ColumnIs(SQL_VARYING) THEN var.sqllen + SizeofShort
                     ELSE IF TemporalColumn THEN abi.sizeofTm
                     ELSE var.sqllen)

\* The buffer of a nullable timestamp column was obtained.
C15_Witness ==
    /\ lastOp = "allocBuffer"
    /\ var.sqltype = SQL_TIMESTAMP + 1
    /\ Len(buf) = abi.sizeofTm

\* C16: every byte that setTextParam() writes for a fixed text, a varying
\* text, a timestamp, a date or a time column, the copy of the std::tm
\* included, lies within the size allocBuffer() computes for the column.
C16_WritesWithinBuffer ==
    (/\ lastOp = "setTextParam"
     /\ ColumnIs(SQL_TEXT) \/ ColumnIs(SQL_VARYING) \/ TemporalColumn)
      => written \subseteq 0..(Len(allocBuffer(var, abi)) - 1)

\* A timestamp was written: the std::tm copied, the encoding behind it.
C16_Witness ==
    /\ lastOp = "setTextParam"
    /\ ColumnIs(SQL_TIMESTAMP)
    /\ lastErr = ""
    /\ written = 0..(abi.sizeofTm - 1)

\* ---------------------------------------------------------- Firebird blobs
\* C20: copy_from_blob() returns normally exactly when the blob delivered
\* as many bytes as its length, the output then having that length; when it
\* delivered fewer it throws the error that names both numbers.
C20_BlobReadComplete ==
    lastOp = "copy_from_blob"
      => LET len_total == lastArg[1]
             len_read == lastArg[2]
         IN  /\ lastErr = "" <=> len_read = len_total
             /\ lastErr = "" => Len(lastRet) = len_total
             /\ len_read < len_total
                  => lastErr = "Read " \o ToString(len_read)
                                 \o " bytes instead of expected "
                                 \o ToString(len_total)
                                 \o " from Firebird text blob object"

\* A blob delivered some bytes, fewer than its length, and the call threw.
C20_Witness ==
    /\ lastOp = "copy_from_blob"
    /\ lastArg[2] > 0
    /\ lastArg[2] < lastArg[1]
    /\ lastErr # ""

\* ------------------------------------------------- schema introspection
SchemaOps == {"get_table_names_query", "get_column_descriptions_query"}

\* The last operation was a query builder whose get_schema_names() had a
\* search path to tokenize, and the search path it tokenized.
Tokenized == lastOp \in SchemaOps /\ lastArg.show \in {"no_rows", "row"}
TokenizedPath ==
    IF lastArg.show = "row" /\ lastArg.search_path # <<>>
      THEN lastArg.search_path ELSE DefaultSearchPath

\* The character at i of the path p lies in a quoted segment: an odd number
\* of double quotes precede it.
InQuotes(p, i) == Cardinality({j \in 1..(i - 1) : p[j] = DoubleQuote}) % 2 = 1

\* The commas of p outside quotes, which end an entry, and the k-th of them.
EntryEnds(p) == {i \in 1..Len(p) : p[i] = Comma /\ ~InQuotes(p, i)}
EntryEnd(p, k) ==
    IF k = 0 THEN 0
    ELSE IF k > Cardinality(EntryEnds(p)) THEN Len(p) + 1
    ELSE CHOOSE i \in EntryEnds(p) : Cardinality({j \in EntryEnds(p) : j <= i}) = k

\* The characters of p strictly between lo and hi that belong to a name:
\* all but the double quotes and the commas and blanks outside quotes.
NameBetween(p, lo, hi) ==
    LET kept == {i \in (lo + 1)..(hi - 1) :
                    /\ p[i] # DoubleQuote
                    /\ p[i] \in {Comma, Blank} => InQuotes(p, i)}
    IN  [n \in 1..Cardinality(kept) |->
            p[CHOOSE i \in kept : Cardinality({j \in kept : j <= i}) = n]]

\* The entries of p: the name before each comma outside quotes, in their
\* order, and the name behind the last of them unless it is empty.
EntriesOf(p) ==
    LET ends == Cardinality(EntryEnds(p))
        last == NameBetween(p, EntryEnd(p, ends), Len(p) + 1)
    IN  [k \in 1..ends |-> NameBetween(p, EntryEnd(p, k - 1), EntryEnd(p, k))]
          \o (IF last # <<>> THEN <<last>> ELSE <<>>)

QuotedCommaPath == <<"\"", "a", ",", "b", "\"", ",", " ", "c">>

\* C17: the tokenizer of get_schema_names() toggles the quoted mode at each
\* double quote, keeps a comma or blank of a quoted segment as a character
\* of the name, and ends the entry at a comma outside quotes; the entries
\* come in the order of the search path, and "a,b", c gives a,b and then c.
C17_TokenizerEntries ==
    Tokenized
      => /\ schema_names = EntriesOf(TokenizedPath)
         /\ TokenizedPath = QuotedCommaPath
              => schema_names = <<<<"a", ",", "b">>, <<"c">>>>

\* The search path "a,b", c was tokenized.
C17_Witness ==
    /\ Tokenized
    /\ lastArg.search_path = QuotedCommaPath
    /\ Len(schema_names) = 2
    /\ lastErr = ""

\* The quoted form of a name: the name between single quotes, each single
\* quote of it doubled.
QuotedForm(name) ==
    LET at(i) == Cardinality({j \in 1..(i - 1) : name[j] = SingleQuote}) + i + 1
        length == Len(name) + Cardinality({j \in 1..Len(name) : name[j] = SingleQuote}) + 2
    IN  [k \in 1..length |->
            IF k = 1 \/ k = length THEN SingleQuote
            ELSE IF \E i \in 1..Len(name) : at(i) = k
              THEN name[CHOOSE i \in 1..Len(name) : at(i) = k]
            ELSE SingleQuote]

FilterPieces ==
    [k \in 1..(2 * Len(schema_list) - 1) |->
        IF k % 2 = 1 THEN Str(schema_list[(k + 1) \div 2]) ELSE ", "]
RankingPieces ==
    [k \in 1..(4 * Len(schema_list)) |->
        CASE k % 4 = 1 -> " WHEN "
          [] k % 4 = 2 -> Str(schema_list[(k + 2) \div 4])
          [] k % 4 = 3 -> " THEN "
          [] k % 4 = 0 -> ToString(k \div 4 - 1)]
      \o <<" ELSE ", ToString(Len(schema_list))>>

\* A query holds the pieces ps next to each other.
Holds(query, ps) ==
    \E k \in 0..(Len(query) - Len(ps)) : SubSeq(query, k + 1, k + Len(ps)) = ps

\* C19 as stated: each of the two queries holds the list as its filter and
\* the ordering that ranks the i-th schema i and every other schema by the
\* length of the list.
C19_BothQueriesRank ==
    (lastOp \in SchemaOps /\ lastErr = "")
      => Holds(lastRet, FilterPieces) /\ Holds(lastRet, RankingPieces)

\* C19: get_column_descriptions_query() holds the list as its filter and
\* the ordering that ranks the i-th schema i and every other schema by the
\* length of the list; get_table_names_query() holds the list as its filter
\* and no ordering.
C19_ColumnQueryRanks ==
    /\ (lastOp = "get_column_descriptions_query" /\ lastErr = "")
         => lastRet = <<ColumnDescriptionsHead>> \o FilterPieces
                        \o <<ColumnDescriptionsOrder>> \o RankingPieces
                        \o <<ColumnDescriptionsTail>>
    /\ (lastOp = "get_table_names_query" /\ lastErr = "")
         => lastRet = <<TableNamesHead>> \o FilterPieces \o <<")">>

\* The query of the column descriptions was built on two schemas.
C19_Witness ==
    /\ lastOp = "get_column_descriptions_query"
    /\ lastErr = ""
    /\ Len(schema_list) = 2
    /\ Holds(lastRet, <<" WHEN ", Str(schema_list[2]), " THEN ", "1", " ELSE ", "2">>)


\* ------------------------------------------------------------------ C21
\* sscanf converted every one of the n values of the format.
Matches(s, fmt, n) == Len(Sscanf(s, fmt)) = n

\* The calendar value of a date <<year, month, day>> (or none) and a time
\* <<hour, minute, second>>.
Calendar(d, t) ==
    [ZeroTm EXCEPT !.tm_year = IF d = <<>> THEN 0 ELSE d[1] - 1900,
                   !.tm_mon = IF d = <<>> THEN 0 ELSE d[2] - 1,
                   !.tm_mday = IF d = <<>> THEN 0 ELSE d[3],
                   !.tm_hour = t[1], !.tm_min = t[2], !.tm_sec = t[3]]

\* The pattern that wins for a text on the column, as a calendar value, or
\* none: "Y-M-D h:m:s", then "Y-M-DTh:m:s", then "Y-M-D" at midnight on a
\* timestamp or date column, "h:m:s" alone on a time column.
WinningPattern(s) ==
    LET a == Sscanf(s, FmtTimestamp)
        b == Sscanf(s, FmtTimestampT)
        c == Sscanf(s, FmtDate)
        d == Sscanf(s, FmtTime)
    IN  IF ColumnIs(SQL_TYPE_TIME)
          THEN IF Matches(s, FmtTime, 3) THEN <<Calendar(<<>>, d)>> ELSE <<>>
        ELSE IF Matches(s, FmtTimestamp, 6)
          THEN <<Calendar(SubSeq(a, 1, 3), SubSeq(a, 4, 6))>>
        ELSE IF Matches(s, FmtTimestampT, 6)
          THEN <<Calendar(SubSeq(b, 1, 3), SubSeq(b, 4, 6))>>
        ELSE IF Matches(s, FmtDate, 3) THEN <<Calendar(c, <<0, 0, 0>>)>>
        ELSE <<>>

\* C21: a setTextParam() on a temporal column writes the calendar value of
\* the first pattern that matches the text, in the order "Y-M-D h:m:s",
\* "Y-M-DTh:m:s", "Y-M-D" on a timestamp or date column and "h:m:s" alone on
\* a time column; a text that matches the date alone is written with hour,
\* minute and second 0 whatever the failed attempts converted; a text that
\* matches no pattern throws and leaves every byte of the buffer as it was.
C21_ParseStep ==
    (lastOp' = "setTextParam" /\ TemporalColumn)
      => LET w == WinningPattern(lastArg')
         IN  IF w = <<>>
               THEN /\ lastErr' = "Could not parse timestamp value."
                    /\ buf' = buf
                    /\ written' = {}
               ELSE /\ lastErr' = ""
                    /\ buf' = WriteTm(w[1], var, buf, abi).buf
C21_PatternsInOrder == [][C21_ParseStep]_vars

\* A text was written to a timestamp column as a date at midnight after the
\* first attempt had converted an hour and a minute from it.
C21_Witness ==
    /\ lastOp = "setTextParam"
    /\ ColumnIs(SQL_TIMESTAMP)
    /\ lastErr = ""
    /\ Len(Sscanf(lastArg, FmtTimestamp)) = 5
    /\ buf = WriteTm(Calendar(Sscanf(lastArg, FmtDate), <<0, 0, 0>>),
                     var, buf, abi).buf

\* ------------------------------------------------------------------ C22
\* The PQserverVersion() calls and the commands of the last connect().
VersionCalls == CallsOf(calls, "PQserverVersion")
FixupCalls == CallsOf(calls, "PQexec")

\* The command connect() owes a server of the version, or none.
FixupFor(version) ==
    IF version >= 120000 THEN <<>>
    ELSE IF version >= 90000 THEN <<"SET extra_float_digits = 3">>
    ELSE <<"SET extra_float_digits = 2">>

\* The commands, in order, are those for the version that was read, sent on
\* the handle of the native connect.
FixupMatchesVersion ==
    /\ Len(FixupCalls) = Len(FixupFor(VersionCalls[1].res))
    /\ \A i \in 1..Len(FixupCalls) :
         /\ FixupCalls[i].arg = FixupFor(VersionCalls[1].res)[i]
         /\ FixupCalls[i].h = VersionCalls[1].h

\* A session holds the handle of its last connect() only if that connect()
\* read the version and the server accepted every command it was sent.
StoredAfterFixup ==
    (/\ conn_ # Null
     /\ \E i \in 1..Len(calls) : calls[i].fn = "PQconnectdb" /\ calls[i].h = conn_)
      => /\ lastErr = ""
         /\ Len(VersionCalls) = 1
         /\ \A i \in 1..Len(FixupCalls) : FixupCalls[i].res = "PGRES_COMMAND_OK"

\* The version of the server the native connect of the last connect()
\* reached.
ServerVersion == CallsOf(calls, "PQconnectdb")[1].res

\* C22 as stated: every connect() whose native connect succeeded issues the
\* fix-up command once if the server's version is below 12.0, the value by
\* the version, and no command if it is 12.0 or later, and the handle is
\* stored only after the fix-up was accepted.
C22_FixupAfterEveryNativeConnect ==
    (lastOp \in ConnectOps /\ NativeSucceeded)
      => /\ Len(FixupCalls) = Len(FixupFor(ServerVersion))
         /\ \A i \in 1..Len(FixupCalls) :
              FixupCalls[i].arg = FixupFor(ServerVersion)[i]
         /\ StoredAfterFixup

\* C22: a connect() whose native connect succeeded and whose timeout step
\* did not fail reads the server's version, once, and then issues the fix-up
\* command exactly once if the version is below 12.0 (value 3 from 9.0, value
\* 2 before) and no command from 12.0 on; a connect() whose native connect or
\* timeout step failed reads no version and issues no command; a refused
\* fix-up makes connect() fail, and the session holds the new handle only
\* when connect() did not fail, the fix-up accepted.
C22_FixupBeforeStore ==
    lastOp \in ConnectOps
      => /\ Len(VersionCalls)
              = (IF NativeSucceeded /\ lastErr \notin TimeoutErrors THEN 1 ELSE 0)
         /\ VersionCalls = <<>> => FixupCalls = <<>>
         /\ VersionCalls # <<>>
              => VersionCalls[1].res = ServerVersion /\ FixupMatchesVersion
         /\ (\E i \in 1..Len(FixupCalls) : FixupCalls[i].res # "PGRES_COMMAND_OK")
              => lastErr = "Cannot set extra_float_digits parameter"
         /\ StoredAfterFixup

\* A session reconnected to a server older than 9.0, the fix-up accepted and
\* the new handle stored.
C22_Witness ==
    /\ lastOp = "connect"
    /\ lastErr = ""
    /\ Len(VersionCalls) = 1
    /\ VersionCalls[1].res < 90000
    /\ Len(FixupCalls) = 1
    /\ FixupCalls[1].arg = "SET extra_float_digits = 2"
    /\ FixupCalls[1].res = "PGRES_COMMAND_OK"
    /\ conn_ = VersionCalls[1].h

\* ------------------------------------------------------------------ C23
\* The columns getTextParam() reads: fixed and varying text and the three
\* integer types, the width in bytes of each integer type.
TextColumn == ColumnIs(SQL_TEXT) \/ ColumnIs(SQL_VARYING)
NumericColumn == ColumnIs(SQL_SHORT) \/ ColumnIs(SQL_LONG) \/ ColumnIs(SQL_INT64)
IntegerWidth ==
    IF ColumnIs(SQL_SHORT) THEN 2 ELSE IF ColumnIs(SQL_LONG) THEN 4 ELSE 8

\* C23: a getTextParam() returns a string exactly on a fixed text, varying
\* text, smallint, int32 or int64 column, nullable or not, and throws
\* "Unexpected string type" on every other column; on an integer column it
\* decodes as many bytes as the setTextParam() of that column wrote, 2, 4 or
\* 8, so that the text it returns, written again, gives the same bytes; and
\* after a setTextParam() that a timestamp, date or time column accepted it
\* throws.
C23_ReadStep ==
    lastOp' = "getTextParam"
      => /\ lastErr' = "" <=> (TextColumn \/ NumericColumn)
         /\ lastErr' # "" => lastErr' = "Unexpected string type" /\ lastRet' = <<>>
         /\ NumericColumn
              => /\ lastRet' = format_decimal(IntegerWidth, buf, var.sqlscale, abi)
                 /\ (lastOp = "setTextParam" /\ lastErr = "")
                      => /\ written = 0..(IntegerWidth - 1)
                         /\ setTextParam(lastRet', var, buf, abi).err = ""
                         /\ setTextParam(lastRet', var, buf, abi).buf = buf
         /\ (lastOp = "setTextParam" /\ lastErr = "" /\ TemporalColumn)
              => lastErr' # ""
C23_ReadableColumns == [][C23_ReadStep]_vars

\* A timestamp column holds the value a setTextParam() wrote, and the
\* getTextParam() on it threw.
C23_Witness ==
    /\ lastOp = "getTextParam"
    /\ ColumnIs(SQL_TIMESTAMP)
    /\ \A i \in 1..SizeofIscTimestamp : buf[i] # Uninit
    /\ lastErr = "Unexpected string type"
====
